---- MODULE Spec2Model ----
(***************************************************************************)
(* Scope analysis of an ESTree program: the Referencer walks the tree,     *)
(* the ScopeManager keeps the scope stack, each Scope resolves or forwards *)
(* its pending references when it closes.                                  *)
(*                                                                         *)
(* The tree is an input.  It is revealed node by node as the walk reaches  *)
(* it: a pending visit is a frame of the walker's stack, and the action    *)
(* of a node kind is enabled when the pending visit may be of that kind.   *)
(* A handler that visits children is cut at those visits: the part before  *)
(* the first visit is the action named after the handler, the parts that   *)
(* follow are its continuation actions.                                    *)
(***************************************************************************)
EXTENDS Integers, Sequences, FiniteSets, TLC

VARIABLES opts, scopes, refs, cur, stack, nodes, fuel, inMethod, status

vars == <<opts, scopes, refs, cur, stack, nodes, fuel, inMethod, status>>

\* Number of nodes (other than Program and childless leaves) of the input tree.
MaxNodes == 2

\* Identifier names of the input programs.
Names == {"x", "y"}

NoScope == 0
NoNode == 0
ProgramNode == 1

\* The j-th child of a node whose place in the tree its parent fixes (a test,
\* a body, a default value): an id that no other node has.  The children of
\* a list (the statements of a block) are numbered as they are met, from
\* ProgramNode on, and stay below 16.
Child(node, j) == node * 16 + j

(***************************************************************************)
(* Generic helpers                                                         *)
(***************************************************************************)
FoldSeq(Op(_, _), base, s) ==
  LET F[i \in 0..Len(s)] == IF i = 0 THEN base ELSE Op(F[i - 1], s[i])
  IN F[Len(s)]

Count(s, v) == Cardinality({i \in 1..Len(s) : s[i] = v})

(***************************************************************************)
(* Patterns.  A pattern is a tree of records; the right side of an         *)
(* AssignmentPattern is the child number of its default-value expression   *)
(***************************************************************************)
Id(n) == [t |-> "Identifier", name |-> n]
Arr(es) == [t |-> "ArrayPattern", elements |-> es]
Obj(ps) == [t |-> "ObjectPattern", properties |-> ps]
Asg(l, r) == [t |-> "AssignmentPattern", left |-> l, right |-> r]
RestEl(a) == [t |-> "RestElement", argument |-> a]

\* PatternVisitor: the callbacks at the leaf identifiers, in source order, and
\* the right-hand nodes collected on the way.
RECURSIVE PatternVisit(_, _, _, _)
PatternVisit(p, root, assignments, isRestArg) ==
  CASE p.t = "Identifier" ->
         [cbs |-> << [name |-> p.name, topLevel |-> (p = root), rest |-> isRestArg,
                      assignments |-> assignments] >>,
          rhs |-> << >>]
    [] p.t = "ArrayPattern" ->
         FoldSeq(LAMBDA acc, e :
                   LET r == PatternVisit(e, root, assignments, FALSE)
                   IN [cbs |-> acc.cbs \o r.cbs, rhs |-> acc.rhs \o r.rhs],
                 [cbs |-> << >>, rhs |-> << >>], p.elements)
    [] p.t = "ObjectPattern" ->
         FoldSeq(LAMBDA acc, e :
                   LET r == PatternVisit(e, root, assignments, FALSE)
                   IN [cbs |-> acc.cbs \o r.cbs, rhs |-> acc.rhs \o r.rhs],
                 [cbs |-> << >>, rhs |-> << >>], p.properties)
    [] p.t = "AssignmentPattern" ->
         LET r == PatternVisit(p.left, root, Append(assignments, p), FALSE)
         IN [cbs |-> r.cbs, rhs |-> Append(r.rhs, p.right)]
    [] p.t = "RestElement" ->
         PatternVisit(p.argument, root, assignments, TRUE)

Callbacks(p) == PatternVisit(p, p, << >>, FALSE).cbs
RightHandNodes(p) == PatternVisit(p, p, << >>, FALSE).rhs

(***************************************************************************)
(* Binding model and Scope                                                 *)
(***************************************************************************)
\* The analysis state threaded through a handler: h = [scopes, refs, cur].
Heap == [scopes |-> scopes, refs |-> refs, cur |-> cur]

Definition(type, name, node, parent, index, kind) ==
  [type |-> type, name |-> name, node |-> node, parent |-> parent,
   index |-> index, kind |-> kind, rest |-> FALSE]

ParameterDefinition(name, node, index, rest) ==
  [type |-> "Parameter", name |-> name, node |-> node, parent |-> NoNode,
   index |-> index, kind |-> "", rest |-> rest]

VariableScopeTypes == {"global", "function", "module"}

NewScope(h, type, block) ==
  LET id == Len(h.scopes) + 1
      upper == h.cur
  IN [type |-> type, upper |-> upper, block |-> block,
      isStrict |-> IF upper = NoScope THEN FALSE ELSE h.scopes[upper].isStrict,
      variableScope |-> IF type \in VariableScopeTypes THEN id
                        ELSE h.scopes[upper].variableScope,
      dynamic |-> type \in {"global", "with"},
      variables |-> << >>, left |-> << >>, open |-> TRUE, closes |-> 0,
      through |-> << >>]

\* ScopeManager.__nestScope: the new scope's upper is the current scope, and
\* the new scope becomes current.
NestScope(h, type, block) ==
  [h EXCEPT !.scopes = Append(@, NewScope(h, type, block)),
            !.cur = Len(h.scopes) + 1]

Define(h, s, name, def) ==
  LET vs == h.scopes[s].variables
      at == {i \in 1..Len(vs) : vs[i].name = name}
  IN IF at = {}
     THEN [h EXCEPT !.scopes[s].variables =
             Append(@, [name |-> name, defs |-> <<def>>, references |-> << >>,
                        tainted |-> FALSE])]
     ELSE LET i == CHOOSE i \in at : TRUE
          IN [h EXCEPT !.scopes[s].variables[i].defs = Append(@, def)]

READ == "r"
WRITE == "w"
RW == "rw"

Referencing(h, s, name, flag, writeExpr, maybeImplicitGlobal, partial, init) ==
  LET r == Len(h.refs) + 1
  IN [h EXCEPT !.refs = Append(@, [name |-> name, from |-> s, flag |-> flag,
                                   writeExpr |-> writeExpr,
                                   implicitGlobal |-> maybeImplicitGlobal,
                                   partial |-> partial, init |-> init,
                                   tainted |-> FALSE, resolved |-> NoScope]),
               !.scopes[s].left = Append(@, r)]

\* FunctionExpressionNameScope binds the function's own name when it is made.
NestFunctionExpressionNameScope(h, node, name) ==
  LET g == NestScope(h, "function-expression-name", node)
  IN Define(g, g.cur, name, Definition("FunctionName", name, node, NoNode, 0, ""))

DelegateToUpperScope(h, s, r) ==
  LET up == h.scopes[s].upper
      g == IF up = NoScope THEN h ELSE [h EXCEPT !.scopes[up].left = Append(@, r)]
  IN [g EXCEPT !.scopes[s].through = Append(@, r)]

Resolve(h, s, r) ==
  LET vs == h.scopes[s].variables
      i == CHOOSE i \in 1..Len(vs) : vs[i].name = h.refs[r].name
  IN [h EXCEPT !.scopes[s].variables[i].references = Append(@, r),
               !.scopes[s].variables[i].tainted = @ \/ h.refs[r].tainted,
               !.refs[r].resolved = s]

Declares(h, s, name) ==
  \E i \in 1..Len(h.scopes[s].variables) : h.scopes[s].variables[i].name = name

StaticCloseRef(h, s, r) ==
  IF Declares(h, s, h.refs[r].name) THEN Resolve(h, s, r)
  ELSE DelegateToUpperScope(h, s, r)

\* The end of __close: no pending list any more, the upper scope is returned
\* (and made current by Referencer.close).
Closed(h, s) ==
  [h EXCEPT !.scopes[s].left = << >>, !.scopes[s].open = FALSE,
            !.scopes[s].closes = @ + 1, !.cur = h.scopes[s].upper]

\* Scope.__close: resolve or forward every pending reference, return upper.
ScopeClose(h, s) ==
  LET g == FoldSeq(LAMBDA hh, r : StaticCloseRef(hh, s, r), h, h.scopes[s].left)
  IN Closed(g, s)

ShouldStaticallyClose == opts.optimistic

\* A close of a With scope that forgets its pending references.
WithScopeCloseDropping(h, s) == Closed(h, s)

\* A close of a With scope that hands its pending references up as they are.
WithScopeCloseUntainted(h, s) ==
  LET g == FoldSeq(LAMBDA hh, r : DelegateToUpperScope(hh, s, r), h, h.scopes[s].left)
  IN Closed(g, s)

\* WithScope.__close
WithScopeClose(h, s) ==
  IF ShouldStaticallyClose THEN ScopeClose(h, s)
  ELSE LET g == FoldSeq(LAMBDA hh, r :
                          DelegateToUpperScope([hh EXCEPT !.refs[r].tainted = TRUE], s, r),
                        h, h.scopes[s].left)
       IN Closed(g, s)

\* A close that resolves nothing and hands every pending reference up.
CloseOneForwarding(h) == WithScopeCloseUntainted(h, h.cur)

CloseOne(h) ==
  IF h.scopes[h.cur].type = "with" THEN WithScopeClose(h, h.cur)
  ELSE ScopeClose(h, h.cur)

\* A close that closes at most one scope.
CloseOnce(h, node) ==
  IF h.cur # NoScope /\ h.scopes[h.cur].block = node THEN CloseOne(h) ELSE h

\* Referencer.close
RECURSIVE Close(_, _)
Close(h, node) ==
  IF h.cur # NoScope /\ h.scopes[h.cur].block = node
  THEN Close(CloseOne(h), node)
  ELSE h

(***************************************************************************)
(* Frames of the walker's stack: a pending visit of a node (a slot), or    *)
(* the rest of a handler that waits for its children's visits              *)
(***************************************************************************)
Frame(op, node, cat, i, form) ==
  [op |-> op, node |-> node, cat |-> cat, i |-> i, form |-> form]
NoForm == [k |-> "none"]
Slot(cat, node) == Frame("slot", node, cat, 0, NoForm)
Cont(op, node) == Frame(op, node, "", 0, NoForm)

(***************************************************************************)
(* Input forms: the shapes of declarations the input programs are built of *)
(***************************************************************************)
PX == Id("x")
\* [x = e]
PDefault == Arr(<< Asg(Id("x"), 1) >>)
\* {a, b: [c, ...d] = e}
PNested == Obj(<< Id("a"), Asg(Arr(<< Id("c"), RestEl(Id("d")) >>), 1) >>)

\* A VariableDeclaration with one declarator: kind, id and whether it has an
\* initializer.  The default values of the pattern are the first children of
\* the declaration, the initializer comes after them.
Decl(kind, id, init) == [kind |-> kind, id |-> id, init |-> init]
DeclForms ==
  { Decl(k, PX, i) : k \in {"var", "let"}, i \in BOOLEAN }
    \cup { Decl("const", PX, TRUE), Decl("var", PDefault, TRUE),
           Decl("let", PDefault, TRUE), Decl("const", PNested, TRUE) }

NumRhs(p) == Len(RightHandNodes(p))
InitNode(node, form) == IF form.init THEN Child(node, NumRhs(form.id) + 1) ELSE NoNode

\* A function: node type, own name ("" when anonymous), parameter patterns,
\* the legacy node.rest name ("" when absent) and the body ("block", "expr"
\* for an arrow's expression body, "none").  The default values of the
\* parameters are the first children of the function, an expression body
\* comes after them.
Fun(type, id, params, rest, body) ==
  [type |-> type, id |-> id, params |-> params, rest |-> rest, body |-> body]
FunctionDeclarationForms ==
  { Fun("FunctionDeclaration", "x", << >>, "", "block"),
    Fun("FunctionDeclaration", "x", << Id("y") >>, "d", "block") }
FunctionExpressionForms ==
  { Fun("FunctionExpression", "", << >>, "", "block"),
    Fun("FunctionExpression", "x", << >>, "", "block"),
    Fun("FunctionExpression", "x", << Id("x") >>, "", "block"),
    Fun("FunctionExpression", "", << Asg(Id("y"), 1), RestEl(Id("d")) >>, "", "block"),
    Fun("ArrowFunctionExpression", "", << Id("x") >>, "", "expr") }
MethodForms == { Fun("FunctionExpression", "", << >>, "", "block") }

RECURSIVE SumRhs(_, _)
SumRhs(ps, i) == IF i > Len(ps) THEN 0 ELSE NumRhs(ps[i]) + SumRhs(ps, i + 1)
FunBodyNode(node, form) == Child(node, SumRhs(form.params, 1) + 1)

\* A class: node type, own name ("" when anonymous), whether it has a
\* superclass expression (the node after the class).
Class(type, id, super) == [type |-> type, id |-> id, super |-> super]
ClassForms ==
  { Class("ClassDeclaration", "x", FALSE), Class("ClassDeclaration", "x", TRUE),
    Class("ClassExpression", "", TRUE), Class("ClassExpression", "x", FALSE) }
ClassKind(form) == IF form.type = "ClassDeclaration" THEN "stmt" ELSE "expr"

\* A for-in/for-of statement: its left side is a declaration or a bare
\* pattern.  The children of the statement are the left side, the right side
\* and the body.
ForIn(left, decl) == [left |-> left, decl |-> decl]
ForInForms ==
  { ForIn("declaration", Decl("let", PX, FALSE)),
    ForIn("declaration", Decl("const", PX, FALSE)),
    ForIn("declaration", Decl("let", PX, TRUE)),
    ForIn("declaration", Decl("let", PDefault, FALSE)),
    ForIn("declaration", Decl("var", PX, FALSE)),
    ForIn("pattern", Decl("", PX, FALSE)) }
ForInLeft(node) == Child(node, 1)
ForInRight(node, form) == Child(node, 2)
ForInBody(node, form) == Child(node, 3)

\* A for statement: its init is absent or a declaration (the node after the
\* statement, followed by the declaration's own nodes and the body).
NoDecl == Decl("", PX, FALSE)
ForInitForms == { NoDecl, Decl("let", PX, TRUE), Decl("var", PX, TRUE) }
ForBody(node, form) ==
  IF form = NoDecl THEN Child(node, 1) ELSE Child(node, 2)

\* The parameter of a catch clause.
CatchParams == { PX, PDefault }

\* An assignment: a pattern or a member expression on the left, the operator.
\* Its children are the left side's and then the right side.
Assign(left, operator) == [left |-> left, operator |-> operator]
Member == [t |-> "MemberExpression"]
AssignForms ==
  { Assign(PX, "="), Assign(PX, "+="), Assign(PDefault, "="), Assign(Member, "=") }
IsPattern(p) ==
  p.t \in {"Identifier", "ObjectPattern", "ArrayPattern", "SpreadElement",
           "RestElement", "AssignmentPattern"}
AssignRight(node, form) ==
  IF IsPattern(form.left) THEN Child(node, NumRhs(form.left) + 1) ELSE Child(node, 2)

\* An import declaration: its specifiers (the children of the declaration).
Specifier(type, local) == [type |-> type, local |-> local]
ImportForms ==
  { << Specifier("ImportDefaultSpecifier", "x") >>,
    << Specifier("ImportNamespaceSpecifier", "x") >>,
    << Specifier("ImportSpecifier", "x") >>,
    << Specifier("ImportDefaultSpecifier", "x"), Specifier("ImportSpecifier", "y") >>,
    << Specifier("ImportNamespaceSpecifier", "x"), Specifier("ImportSpecifier", "x") >> }

\* An export: what it carries (a declaration, the node after the export;
\* specifiers, by their local names; a source module).
Export(declaration, specifiers, source) ==
  [declaration |-> declaration, specifiers |-> specifiers, source |-> source]
ExportNamedForms ==
  { Export("declaration", << >>, FALSE), Export("", << "x" >>, FALSE),
    Export("", << "x" >>, TRUE), Export("", << >>, FALSE),
    Export("", << "x", "y" >>, FALSE) }
ExportDefaultForms ==
  { Export("declaration", << >>, FALSE), Export("AssignmentExpression", << >>, FALSE) }
ExportLegacyForms ==
  { Export("declaration", << >>, FALSE), Export("", << "x" >>, FALSE),
    Export("", << "x" >>, TRUE) }

\* The pending visits of the right-hand nodes of a pattern at node `base`.
RhsSlots(base, p) ==
  [i \in 1..NumRhs(p) |-> Slot("expr", Child(base, RightHandNodes(p)[i]))]

(***************************************************************************)
(* Referencer helpers                                                      *)
(***************************************************************************)
\* A referencingDefaultValue that records nothing.
ReferencingDefaultValueOmitted(h, base, cb, maybeImplicitGlobal, init) == h

\* Referencer.referencingDefaultValue
ReferencingDefaultValue(h, base, cb, maybeImplicitGlobal, init) ==
  FoldSeq(LAMBDA hh, a :
            Referencing(hh, h.cur, cb.name, WRITE, Child(base, a.right),
                        maybeImplicitGlobal, Id(cb.name) # a.left, init),
          h, cb.assignments)

\* A visitVariableDeclaration that makes no Definition for a rest element.
VisitVariableDeclarationSkippingRest(h, target, type, node, form, fromTDZ) ==
  FoldSeq(LAMBDA hh, cb :
            LET h1 == IF cb.rest THEN hh
                      ELSE Define(hh, target, cb.name,
                                  Definition(type, cb.name, node, node, 0, form.kind))
                h2 == IF fromTDZ THEN h1
                      ELSE ReferencingDefaultValue(h1, node, cb, FALSE, TRUE)
            IN IF form.init
               THEN Referencing(h2, h2.cur, cb.name, WRITE, InitNode(node, form),
                                FALSE, ~cb.topLevel, TRUE)
               ELSE h2,
          h, Callbacks(form.id))

\* Referencer.visitVariableDeclaration: the callbacks of the declarator's
\* pattern.  Its right-hand nodes are visited by the caller's frames.
VisitVariableDeclaration(h, target, type, node, form, fromTDZ) ==
  FoldSeq(LAMBDA hh, cb :
            LET h1 == Define(hh, target, cb.name,
                             Definition(type, cb.name, node, node, 0, form.kind))
                h2 == IF fromTDZ THEN h1
                      ELSE ReferencingDefaultValue(h1, node, cb, FALSE, TRUE)
            IN IF form.init
               THEN Referencing(h2, h2.cur, cb.name, WRITE, InitNode(node, form),
                                FALSE, ~cb.topLevel, TRUE)
               ELSE h2,
          h, Callbacks(form.id))

\* Target scopes that ignore the kind of the declaration.
VariableTargetScopeCurrent(h, form) == h.cur

VariableTargetScopeHoisted(h, form) == h.scopes[h.cur].variableScope

VariableTargetScope(h, form) ==
  IF form.kind = "var" THEN h.scopes[h.cur].variableScope ELSE h.cur

\* Referencer.VariableDeclaration for one declarator: the callbacks, and the
\* pending visits of the pattern's right-hand nodes and of the initializer.
DeclareVariables(h, node, form) ==
  VisitVariableDeclaration(h, VariableTargetScope(h, form), "Variable", node, form, FALSE)

DeclSlots(node, form) ==
  RhsSlots(node, form.id)
    \o (IF form.init THEN << Slot("expr", InitNode(node, form)) >> ELSE << >>)

\* ScopeManager.__nestFunctionScope: the function of a method is strict.
NestFunctionScope(h, node, isMethodDefinition) ==
  LET g == NestScope(h, "function", node)
  IN [g EXCEPT !.scopes[g.cur].isStrict = @ \/ isMethodDefinition]

\* Referencer.visitFunction, the loop over the parameters from the i-th on:
\* the callbacks of each parameter, up to and including the first one whose
\* right-hand nodes wait to be visited.
RECURSIVE VisitParams(_, _, _, _)
VisitParams(h, node, form, i) ==
  IF i > Len(form.params) THEN [h |-> h, i |-> i, slots |-> << >>]
  ELSE LET p == form.params[i]
           g == FoldSeq(LAMBDA hh, cb :
                          ReferencingDefaultValue(
                            Define(hh, hh.cur, cb.name,
                                   ParameterDefinition(cb.name, node, i - 1, cb.rest)),
                            node, cb, FALSE, TRUE),
                        h, Callbacks(p))
       IN IF NumRhs(p) = 0 THEN VisitParams(g, node, form, i + 1)
          ELSE [h |-> g, i |-> i + 1, slots |-> RhsSlots(node, p)]

\* A visitFunction that defines node.rest as an ordinary first parameter.
VisitFunctionFromRestUnmarked(h, node, form, i) ==
  LET r == VisitParams(h, node, form, i)
  IN IF r.slots # << >>
     THEN [h |-> r.h,
           frames |-> r.slots \o << Frame("visitFunction_params", node, "", r.i, form) >>]
     ELSE [h |-> IF form.rest = "" THEN r.h
                 ELSE Define(r.h, r.h.cur, form.rest,
                             ParameterDefinition(form.rest, node, 0, FALSE)),
           frames |-> CASE form.body = "block" -> << Cont("visitFunction_body", node) >>
                        [] form.body = "expr" ->
                             << Slot("expr", FunBodyNode(node, form)),
                                Cont("visitFunction_exit", node) >>
                        [] OTHER -> << Cont("visitFunction_exit", node) >>]

\* Referencer.visitFunction from the parameters on: node.rest and the frames
\* of the body once every parameter is done.
VisitFunctionFrom(h, node, form, i) ==
  LET r == VisitParams(h, node, form, i)
  IN IF r.slots # << >>
     THEN [h |-> r.h,
           frames |-> r.slots \o << Frame("visitFunction_params", node, "", r.i, form) >>]
     ELSE [h |-> IF form.rest = "" THEN r.h
                 ELSE Define(r.h, r.h.cur, form.rest,
                             ParameterDefinition(form.rest, node, Len(form.params), TRUE)),
           frames |-> CASE form.body = "block" -> << Cont("visitFunction_body", node) >>
                        [] form.body = "expr" ->
                             << Slot("expr", FunBodyNode(node, form)),
                                Cont("visitFunction_exit", node) >>
                        [] OTHER -> << Cont("visitFunction_exit", node) >>]

\* A visitFunction that hoists the declaration's name to the variable scope.
VisitFunctionEnterHoisted(h, node, form, isInnerMethodDefinition) ==
  LET h1 == IF form.type = "FunctionDeclaration"
            THEN Define(h, h.scopes[h.cur].variableScope, form.id,
                        Definition("FunctionName", form.id, node, NoNode, 0, ""))
            ELSE h
      h2 == IF form.type = "FunctionExpression" /\ form.id # ""
            THEN NestFunctionExpressionNameScope(h1, node, form.id)
            ELSE h1
  IN NestFunctionScope(h2, node, isInnerMethodDefinition)

\* Referencer.visitFunction up to the parameters: the declaration's name, the
\* FunctionExpressionName scope, the Function scope.
VisitFunctionEnter(h, node, form, isInnerMethodDefinition) ==
  LET h1 == IF form.type = "FunctionDeclaration"
            THEN Define(h, h.cur, form.id,
                        Definition("FunctionName", form.id, node, NoNode, 0, ""))
            ELSE h
      h2 == IF form.type = "FunctionExpression" /\ form.id # ""
            THEN NestFunctionExpressionNameScope(h1, node, form.id)
            ELSE h1
  IN NestFunctionScope(h2, node, isInnerMethodDefinition)

\* An iteration scope without the writes of the loop names.
IterationWritesOmitted(h, node, form) == h

\* Referencer.materializeIterationScope: the synthetic write of each loop name.
IterationWrites(h, node, form) ==
  FoldSeq(LAMBDA hh, cb :
            Referencing(hh, hh.cur, cb.name, WRITE, ForInRight(node, form), FALSE, TRUE, TRUE),
          h, Callbacks(form.decl.id))

\* Import bindings that do not carry the declaration node.
ImportSpecifiersUntagged(h, node, form) ==
  FoldSeq(LAMBDA hh, i :
            Define(hh, hh.cur, form[i].local,
                   Definition("ImportBinding", form[i].local, Child(node, i), NoNode, 0, "")),
          h, [i \in 1..Len(form) |-> i])

\* Importer, over the specifiers of the declaration.
ImportSpecifiers(h, node, form) ==
  FoldSeq(LAMBDA hh, i :
            Define(hh, hh.cur, form[i].local,
                   Definition("ImportBinding", form[i].local, Child(node, i), node, 0, "")),
          h, [i \in 1..Len(form) |-> i])

\* Referencer.ExportSpecifier over the given specifiers: visit(local).
ExportSpecifiers(h, form) ==
  FoldSeq(LAMBDA hh, local :
            Referencing(hh, hh.cur, local, READ, NoNode, FALSE, FALSE, FALSE),
          h, form.specifiers)

InModuleScope(h) == h.scopes[h.cur].type = "module"

(***************************************************************************)
(* The walker                                                              *)
(***************************************************************************)

\* Frames whose node's children are a list: another child may be visited, or
\* the list ends and the handler goes on.
ListOps == {"Program", "BlockStatement", "visitFunction_body", "SwitchStatement_cases",
            "visitClass_body"}

\* What a pending visit may turn out to be: a statement, an expression, a
\* function expression, a block, a method of a class body.
Accepts(f, kind) ==
  CASE f.op = "slot" /\ f.cat = "stmt" -> kind \in {"stmt", "expr", "fexpr", "block"}
    [] f.op = "slot" /\ f.cat = "expr" -> kind \in {"expr", "fexpr"}
    [] f.op = "slot" /\ f.cat = "function" -> kind = "fexpr"
    [] f.op = "slot" /\ f.cat = "block" -> kind = "block"
    [] f.op = "slot" /\ f.cat = "assign" -> kind = "assign"
    [] f.op = "visitClass_body" -> kind = "method"
    [] f.op \in ListOps -> kind \in {"stmt", "expr", "fexpr", "block"}
    [] OTHER -> FALSE

Walking == status = "walk" /\ stack # << >>
Top == Head(stack)
\* A child that its parent's kind fixes (the body of a catch clause, the
\* function of a method, the assignment of an export default) is no choice of
\* the input and takes no fuel.
Forced == Top.op = "slot" /\ Top.cat \in {"function", "block", "assign"}
CanVisit(kind) == Walking /\ Accepts(Top, kind) /\ (fuel > 0 \/ Forced)
Burn == IF Forced THEN fuel ELSE fuel - 1
\* The id of the node being visited, the stack once its visit is accounted
\* for, and the number of list children met once it is visited.
NodeId == IF Top.op = "slot" THEN Top.node ELSE nodes + 1
Rest == IF Top.op = "slot" THEN Tail(stack) ELSE stack
Visited == IF Top.op = "slot" THEN nodes ELSE nodes + 1

Commit(h) ==
  /\ scopes' = h.scopes
  /\ refs' = h.refs
  /\ cur' = h.cur

Options ==
  [es6 : BOOLEAN, module : BOOLEAN, nodejsScope : BOOLEAN,
   impliedStrict : BOOLEAN, optimistic : BOOLEAN]

\* The state after construction, for a set of configurations and a number of
\* nodes of the input.
InitWith(configs, n) ==
  /\ opts \in configs
  /\ scopes = << >>
  /\ refs = << >>
  /\ cur = NoScope
  /\ stack = << >>
  /\ nodes = ProgramNode
  /\ fuel = n
  /\ inMethod = FALSE
  /\ status = "init"

Init == InitWith({o \in Options : ~o.impliedStrict}, MaxNodes)

\* A Program that applies the implied strictness to the Global scope.
ProgramStrictGlobal ==
  /\ status = "init"
  /\ LET h0 == NestScope(Heap, "global", ProgramNode)
         h1 == IF opts.nodejsScope THEN NestScope(h0, "function", ProgramNode) ELSE h0
         h2 == IF opts.es6 /\ opts.module
               THEN NestScope(h1, "module", ProgramNode) ELSE h1
         h3 == IF opts.impliedStrict
               THEN [h2 EXCEPT !.scopes[1].isStrict = TRUE] ELSE h2
     IN Commit(h3)
  /\ stack' = << Cont("Program", ProgramNode) >>
  /\ status' = "walk"
  /\ UNCHANGED <<opts, nodes, fuel, inMethod>>

\* Referencer.Program, up to the visit of the children.
Program ==
  /\ status = "init"
  /\ LET h0 == NestScope(Heap, "global", ProgramNode)
         h1 == IF opts.nodejsScope
               THEN NestScope([h0 EXCEPT !.scopes[h0.cur].isStrict = FALSE],
                              "function", ProgramNode)
               ELSE h0
         h2 == IF opts.es6 /\ opts.module
               THEN NestScope(h1, "module", ProgramNode) ELSE h1
         h3 == IF opts.impliedStrict
               THEN [h2 EXCEPT !.scopes[h2.cur].isStrict = TRUE] ELSE h2
     IN Commit(h3)
  /\ stack' = << Cont("Program", ProgramNode) >>
  /\ status' = "walk"
  /\ UNCHANGED <<opts, nodes, fuel, inMethod>>

\* Referencer.Program, after the children: close(node).
ProgramClose ==
  /\ Walking /\ Top.op = "Program"
  /\ Commit(Close(Heap, Top.node))
  /\ stack' = Tail(stack)
  /\ status' = "done"
  /\ UNCHANGED <<opts, nodes, fuel, inMethod>>

\* A node with no handler and no children, or with an empty handler
\* (Literal, EmptyStatement, BreakStatement, ContinueStatement, MetaProperty).
Leaf ==
  /\ Walking /\ Top.op = "slot" /\ Top.cat \in {"stmt", "expr"}
  /\ stack' = Tail(stack)
  /\ UNCHANGED <<opts, scopes, refs, cur, nodes, fuel, inMethod, status>>

\* Referencer.Identifier
Identifier(name) ==
  /\ CanVisit("expr")
  /\ Commit(Referencing(Heap, cur, name, READ, NoNode, FALSE, FALSE, FALSE))
  /\ stack' = Rest
  /\ nodes' = Visited
  /\ fuel' = Burn
  /\ UNCHANGED <<opts, inMethod, status>>

\* Referencer.BlockStatement, up to the visit of the children.
BlockStatement ==
  /\ CanVisit("block")
  /\ Commit(IF opts.es6 THEN NestScope(Heap, "block", NodeId) ELSE Heap)
  /\ stack' = << Cont("BlockStatement", NodeId) >> \o Rest
  /\ nodes' = Visited
  /\ fuel' = Burn
  /\ UNCHANGED <<opts, inMethod, status>>

\* Referencer.BlockStatement, after the children: close(node).
BlockStatementClose ==
  /\ Walking /\ Top.op = "BlockStatement"
  /\ Commit(Close(Heap, Top.node))
  /\ stack' = Tail(stack)
  /\ UNCHANGED <<opts, nodes, fuel, inMethod, status>>

\* Referencer.VariableDeclaration
VariableDeclaration(form) ==
  /\ CanVisit("stmt")
  /\ Commit(DeclareVariables(Heap, NodeId, form))
  /\ stack' = DeclSlots(NodeId, form) \o Rest
  /\ nodes' = Visited
  /\ fuel' = Burn
  /\ UNCHANGED <<opts, inMethod, status>>

\* A WithStatement that pushes the With scope before it visits the object.
WithStatementNestingFirst ==
  /\ CanVisit("stmt")
  /\ Commit(NestScope(Heap, "with", NodeId))
  /\ stack' = << Slot("expr", Child(NodeId, 1)), Cont("WithStatement_object", NodeId) >> \o Rest
  /\ nodes' = Visited
  /\ fuel' = Burn
  /\ UNCHANGED <<opts, inMethod, status>>

\* Referencer.WithStatement: visit(node.object)
WithStatement ==
  /\ CanVisit("stmt")
  /\ stack' = << Slot("expr", Child(NodeId, 1)), Cont("WithStatement_object", NodeId) >> \o Rest
  /\ nodes' = Visited
  /\ fuel' = Burn
  /\ UNCHANGED <<opts, scopes, refs, cur, inMethod, status>>

\* Referencer.WithStatement: __nestWithScope(node), visit(node.body)
WithStatementNest ==
  /\ Walking /\ Top.op = "WithStatement_object"
  /\ Commit(NestScope(Heap, "with", Top.node))
  /\ stack' = << Slot("stmt", Child(Top.node, 2)), Cont("WithStatement_body", Top.node) >>
                 \o Tail(stack)
  /\ UNCHANGED <<opts, nodes, fuel, inMethod, status>>

\* Referencer.WithStatement: close(node)
WithStatementClose ==
  /\ Walking /\ Top.op = "WithStatement_body"
  /\ Commit(Close(Heap, Top.node))
  /\ stack' = Tail(stack)
  /\ UNCHANGED <<opts, nodes, fuel, inMethod, status>>

Step(h, frames) ==
  /\ Commit(h)
  /\ stack' = frames \o Rest
  /\ nodes' = Visited
  /\ fuel' = Burn
  /\ UNCHANGED <<opts, inMethod, status>>

Continue(h, frames) ==
  /\ Commit(h)
  /\ stack' = frames \o Tail(stack)
  /\ UNCHANGED <<opts, nodes, fuel, inMethod, status>>

Throw ==
  /\ status' = "error"
  /\ UNCHANGED <<opts, scopes, refs, cur, stack, nodes, fuel, inMethod>>

\* Referencer.FunctionDeclaration, FunctionExpression, ArrowFunctionExpression:
\* visitFunction(node), up to the first visit of a child.
VisitFunction(form) ==
  /\ CanVisit(IF form.type = "FunctionDeclaration" THEN "stmt" ELSE "fexpr")
  /\ LET r == VisitFunctionFrom(VisitFunctionEnter(Heap, NodeId, form, inMethod),
                                NodeId, form, 1)
     IN Step(r.h, r.frames)

\* Referencer.visitFunction: the parameters after a default value's visit.
VisitFunctionParams ==
  /\ Walking /\ Top.op = "visitFunction_params"
  /\ LET r == VisitFunctionFrom(Heap, Top.node, Top.form, Top.i)
     IN Continue(r.h, r.frames)

\* Referencer.visitFunction: close(node).
VisitFunctionClose ==
  /\ Walking /\ Top.op \in {"visitFunction_body", "visitFunction_exit"}
  /\ Continue(Close(Heap, Top.node), << >>)

\* Referencer.ClassDeclaration, ClassExpression: visitClass(node), up to the
\* visit of the superclass, or of the body when there is no superclass.
VisitClassNestedUnnamed(h, node, form) == NestScope(h, "class", node)

VisitClassNested(h, node, form) ==
  LET g == NestScope(h, "class", node)
  IN IF form.id # ""
     THEN Define(g, g.cur, form.id, Definition("ClassName", form.id, node, NoNode, 0, ""))
     ELSE g

VisitClass(form) ==
  /\ CanVisit(ClassKind(form))
  /\ LET h1 == IF form.type = "ClassDeclaration"
               THEN Define(Heap, cur, form.id,
                           Definition("ClassName", form.id, NodeId, NoNode, 0, ""))
               ELSE Heap
     IN IF form.super
        THEN Step(h1, << Slot("expr", Child(NodeId, 1)),
                         Frame("visitClass_super", NodeId, "", 0, form) >>)
        ELSE Step(VisitClassNested(h1, NodeId, form),
                  << Cont("visitClass_body", NodeId) >>)

\* Referencer.visitClass: after the superclass, the Class scope and the body.
VisitClassNest ==
  /\ Walking /\ Top.op = "visitClass_super"
  /\ Continue(VisitClassNested(Heap, Top.node, Top.form),
              << Cont("visitClass_body", Top.node) >>)

\* Referencer.visitClass: close(node).
VisitClassClose ==
  /\ Walking /\ Top.op = "visitClass_body"
  /\ Continue(Close(Heap, Top.node), << >>)

\* Referencer.MethodDefinition: visitProperty(node), up to visit(node.value).
MethodDefinition ==
  /\ CanVisit("method")
  /\ stack' = << Slot("function", Child(NodeId, 1)),
                 Frame("visitProperty_value", NodeId, "", 0, [previous |-> inMethod]) >>
                \o Rest
  /\ inMethod' = TRUE
  /\ nodes' = Visited
  /\ fuel' = Burn
  /\ UNCHANGED <<opts, scopes, refs, cur, status>>

\* Referencer.visitProperty: popInnerMethodDefinition(previous).
VisitPropertyPop ==
  /\ Walking /\ Top.op = "visitProperty_value"
  /\ inMethod' = Top.form.previous
  /\ stack' = Tail(stack)
  /\ UNCHANGED <<opts, scopes, refs, cur, nodes, fuel, status>>

\* Referencer.ForInStatement, ForOfStatement: visitForIn(node), up to the
\* first visit of a child.
VisitForIn(form) ==
  /\ CanVisit("stmt")
  /\ LET left == ForInLeft(NodeId)
         right == ForInRight(NodeId, form)
         body == ForInBody(NodeId, form)
     IN CASE form.left = "declaration" /\ form.decl.kind # "var" ->
               \* materializeTDZScope(node.right, node); visit(node.right)
               LET h1 == NestScope(Heap, "TDZ", right)
                   h2 == VisitVariableDeclaration(h1, h1.cur, "TDZ", left, form.decl, TRUE)
               IN Step(h2, << Slot("expr", right),
                              Frame("visitForIn_right", NodeId, "", 0, form) >>)
          [] form.left = "declaration" /\ form.decl.kind = "var" ->
               \* visit(node.left), the write of the loop name
               Step(IterationWrites(DeclareVariables(Heap, left, form.decl), NodeId, form),
                    DeclSlots(left, form.decl)
                      \o << Slot("expr", right), Slot("stmt", body) >>)
          [] OTHER ->
               LET h1 == FoldSeq(LAMBDA hh, cb :
                                   LET mig == ~hh.scopes[hh.cur].isStrict
                                   IN Referencing(
                                        ReferencingDefaultValue(hh, left, cb, mig, FALSE),
                                        hh.cur, cb.name, WRITE, right, mig, TRUE, FALSE),
                                 Heap, Callbacks(form.decl.id))
               IN Step(h1, RhsSlots(left, form.decl.id)
                             \o << Slot("expr", right), Slot("stmt", body) >>)

\* Referencer.visitForIn after visit(node.right): close(node.right),
\* materializeIterationScope(node), up to the next visit of a child.
VisitForInIteration ==
  /\ Walking /\ Top.op = "visitForIn_right"
  /\ LET node == Top.node
         form == Top.form
         h1 == Close(Heap, ForInRight(node, form))
         h2 == NestScope(h1, "for", node)
         h3 == VisitVariableDeclaration(h2, h2.cur, "Variable", ForInLeft(node),
                                        form.decl, FALSE)
     IN IF NumRhs(form.decl.id) = 0
        THEN Continue(IterationWrites(h3, node, form),
                      << Slot("stmt", ForInBody(node, form)),
                         Frame("visitForIn_body", node, "", 0, form) >>)
        ELSE Continue(h3, RhsSlots(ForInLeft(node), form.decl.id)
                            \o << Frame("materializeIterationScope_writes", node, "", 0, form) >>)

\* Referencer.materializeIterationScope after the default values' visits:
\* the writes of the loop names; then visit(node.body).
MaterializeIterationScopeWrites ==
  /\ Walking /\ Top.op = "materializeIterationScope_writes"
  /\ Continue(IterationWrites(Heap, Top.node, Top.form),
              << Slot("stmt", ForInBody(Top.node, Top.form)),
                 Frame("visitForIn_body", Top.node, "", 0, Top.form) >>)

\* Referencer.visitForIn: close(node).
VisitForInClose ==
  /\ Walking /\ Top.op = "visitForIn_body"
  /\ Continue(Close(Heap, Top.node), << >>)

\* Referencer.ForStatement, up to the first visit of a child.
ForStatement(form) ==
  /\ CanVisit("stmt")
  /\ LET h1 == IF form # NoDecl /\ form.kind # "var"
               THEN NestScope(Heap, "for", NodeId) ELSE Heap
         h2 == IF form # NoDecl THEN DeclareVariables(h1, Child(NodeId, 1), form) ELSE h1
     IN Step(h2, (IF form # NoDecl THEN DeclSlots(Child(NodeId, 1), form) ELSE << >>)
                   \o << Slot("stmt", ForBody(NodeId, form)),
                         Cont("ForStatement_body", NodeId) >>)

\* Referencer.ForStatement: close(node).
ForStatementClose ==
  /\ Walking /\ Top.op = "ForStatement_body"
  /\ Continue(Close(Heap, Top.node), << >>)

\* Referencer.CatchClause, up to the first visit of a child.
CatchClause(param) ==
  /\ CanVisit("stmt")
  /\ LET h1 == NestScope(Heap, "catch", NodeId)
         h2 == FoldSeq(LAMBDA hh, cb :
                         ReferencingDefaultValue(
                           Define(hh, hh.cur, cb.name,
                                  Definition("CatchClause", cb.name, NodeId, NoNode, 0, "")),
                           NodeId, cb, FALSE, TRUE),
                       h1, Callbacks(param))
     IN Step(h2, RhsSlots(NodeId, param)
                   \o << Slot("block", Child(NodeId, NumRhs(param) + 1)),
                         Cont("CatchClause_body", NodeId) >>)

\* Referencer.CatchClause: close(node).
CatchClauseClose ==
  /\ Walking /\ Top.op = "CatchClause_body"
  /\ Continue(Close(Heap, Top.node), << >>)

\* Referencer.SwitchStatement: visit(node.discriminant).
SwitchStatement ==
  /\ CanVisit("stmt")
  /\ Step(Heap, << Slot("expr", Child(NodeId, 1)), Cont("SwitchStatement_discriminant", NodeId) >>)

\* Referencer.SwitchStatement: the Switch scope, the cases.
SwitchStatementNest ==
  /\ Walking /\ Top.op = "SwitchStatement_discriminant"
  /\ Continue(IF opts.es6 THEN NestScope(Heap, "switch", Top.node) ELSE Heap,
              << Cont("SwitchStatement_cases", Top.node) >>)

\* Referencer.SwitchStatement: close(node).
SwitchStatementClose ==
  /\ Walking /\ Top.op = "SwitchStatement_cases"
  /\ Continue(Close(Heap, Top.node), << >>)

\* Referencer.AssignmentExpression
AssignmentExpression(form) ==
  /\ \/ CanVisit("expr")
     \/ CanVisit("assign") /\ form = Top.form
  /\ LET right == AssignRight(NodeId, form)
     IN CASE IsPattern(form.left) /\ form.operator = "=" ->
               LET h1 == FoldSeq(LAMBDA hh, cb :
                                   LET mig == ~hh.scopes[hh.cur].isStrict
                                   IN Referencing(
                                        ReferencingDefaultValue(hh, NodeId, cb, mig, FALSE),
                                        hh.cur, cb.name, WRITE, right, mig,
                                        ~cb.topLevel, FALSE),
                                 Heap, Callbacks(form.left))
               IN Step(h1, RhsSlots(NodeId, form.left) \o << Slot("expr", right) >>)
          [] IsPattern(form.left) ->
               Step(IF form.left.t = "Identifier"
                    THEN Referencing(Heap, cur, form.left.name, RW, right, FALSE, FALSE, FALSE)
                    ELSE Heap,
                    << Slot("expr", right) >>)
          [] OTHER ->
               Step(Heap, << Slot("expr", Child(NodeId, 1)), Slot("expr", right) >>)

\* Referencer.ImportDeclaration
ImportDeclaration(form) ==
  /\ CanVisit("stmt")
  /\ IF opts.es6 /\ opts.module
     THEN Step(ImportSpecifiers(Heap, NodeId, form), << >>)
     ELSE Throw

\* Referencer.visitExportDeclaration: the frames of its visits; it throws
\* outside a module scope.
ExportDeclarationFrames(node, form) ==
  IF ~form.source /\ form.declaration # ""
  THEN << IF form.declaration = "AssignmentExpression"
          THEN Frame("slot", Child(node, 1), "assign", 0, Assign(PX, "="))
          ELSE Slot("stmt", Child(node, 1)) >>
  ELSE << >>

VisitExportDeclaration(h, form) ==
  IF form.source \/ form.declaration # "" THEN h ELSE ExportSpecifiers(h, form)

\* Referencer.ExportDeclaration
ExportDeclaration(form) ==
  /\ CanVisit("stmt")
  /\ IF InModuleScope(Heap)
     THEN Step(VisitExportDeclaration(Heap, form), ExportDeclarationFrames(NodeId, form))
     ELSE Throw

\* Referencer.ExportNamedDeclaration
ExportNamedDeclaration(form) ==
  /\ CanVisit("stmt")
  /\ IF form.declaration # ""
     THEN Step(Heap, << >>)
     ELSE IF form.specifiers # << >> /\ ~InModuleScope(Heap)
          THEN Throw
          ELSE Step(ExportSpecifiers(Heap, form), << >>)

\* An ExportDefaultDeclaration that defines the default binding before it
\* looks at the current scope.
ExportDefaultDeclarationDefiningFirst(form) ==
  /\ CanVisit("stmt")
  /\ LET h == IF form.declaration = "AssignmentExpression"
              THEN Define(Heap, cur, "x",
                          Definition("ExportDefault", "x", Child(NodeId, 1), NodeId, 0, ""))
              ELSE Heap
     IN IF InModuleScope(Heap)
        THEN Step(VisitExportDeclaration(h, form), ExportDeclarationFrames(NodeId, form))
        ELSE /\ Commit(h)
             /\ status' = "error"
             /\ UNCHANGED <<opts, stack, nodes, fuel, inMethod>>

\* Referencer.ExportDefaultDeclaration
ExportDefaultDeclaration(form) ==
  /\ CanVisit("stmt")
  /\ IF InModuleScope(Heap)
     THEN Step(VisitExportDeclaration(
                 IF form.declaration = "AssignmentExpression"
                 THEN Define(Heap, cur, "x",
                             Definition("ExportDefault", "x", Child(NodeId, 1), NodeId, 0, ""))
                 ELSE Heap, form),
               ExportDeclarationFrames(NodeId, form))
     ELSE Throw

Next ==
  \/ Program
  \/ ProgramClose
  \/ Leaf
  \/ \E n \in Names : Identifier(n)
  \/ BlockStatement
  \/ BlockStatementClose
  \/ \E form \in DeclForms : VariableDeclaration(form)
  \/ WithStatement
  \/ WithStatementNest
  \/ WithStatementClose
  \/ \E form \in FunctionDeclarationForms \cup FunctionExpressionForms : VisitFunction(form)
  \/ VisitFunctionParams
  \/ VisitFunctionClose
  \/ \E form \in ClassForms : VisitClass(form)
  \/ VisitClassNest
  \/ VisitClassClose
  \/ MethodDefinition
  \/ VisitPropertyPop
  \/ \E form \in ForInForms : VisitForIn(form)
  \/ VisitForInIteration
  \/ MaterializeIterationScopeWrites
  \/ VisitForInClose
  \/ \E form \in ForInitForms : ForStatement(form)
  \/ ForStatementClose
  \/ \E param \in CatchParams : CatchClause(param)
  \/ CatchClauseClose
  \/ SwitchStatement
  \/ SwitchStatementNest
  \/ SwitchStatementClose
  \/ \E form \in AssignForms : AssignmentExpression(form)
  \/ \E form \in ImportForms : ImportDeclaration(form)
  \/ \E form \in ExportNamedForms : ExportNamedDeclaration(form)
  \/ \E form \in ExportLegacyForms : ExportDeclaration(form)
  \/ \E form \in ExportDefaultForms : ExportDefaultDeclaration(form)

Spec == Init /\ [][Next]_vars

(***************************************************************************)
(* Programs made of the scope-opening constructs, one form of each, with   *)
(* identifiers and plain declarations: one node more than Spec.            *)
(***************************************************************************)
ScopeDeclForms == { Decl("var", PX, FALSE), Decl("let", PX, TRUE) }
ScopeFunctionForms ==
  { Fun("FunctionDeclaration", "x", << >>, "", "block"),
    Fun("FunctionExpression", "x", << >>, "", "block"),
    Fun("FunctionExpression", "x", << Id("x") >>, "", "block"),
    Fun("ArrowFunctionExpression", "", << Id("x") >>, "", "expr") }

InitScopes == InitWith({o \in Options : ~o.impliedStrict /\ ~o.nodejsScope}, MaxNodes + 1)

NextScopes ==
  \/ Program
  \/ ProgramClose
  \/ Leaf
  \/ \E n \in Names : Identifier(n)
  \/ BlockStatement
  \/ BlockStatementClose
  \/ \E form \in ScopeDeclForms : VariableDeclaration(form)
  \/ WithStatement
  \/ WithStatementNest
  \/ WithStatementClose
  \/ \E form \in ScopeFunctionForms : VisitFunction(form)
  \/ VisitFunctionClose
  \/ VisitClass(Class("ClassExpression", "x", FALSE))
  \/ VisitClassClose
  \/ MethodDefinition
  \/ VisitPropertyPop
  \/ VisitForIn(ForIn("declaration", Decl("let", PX, FALSE)))
  \/ VisitForInIteration
  \/ VisitForInClose
  \/ ForStatement(Decl("let", PX, TRUE))
  \/ ForStatementClose
  \/ CatchClause(PX)
  \/ CatchClauseClose
  \/ SwitchStatement
  \/ SwitchStatementNest
  \/ SwitchStatementClose

SpecScopes == InitScopes /\ [][NextScopes]_vars

(***************************************************************************)
(* Programs made of blocks, with statements, declarations and identifiers: *)
(* two nodes more than Spec.                                               *)
(***************************************************************************)
LexicalDeclForms ==
  { Decl("var", PX, FALSE), Decl("var", PX, TRUE), Decl("let", PX, FALSE),
    Decl("let", PX, TRUE), Decl("const", PX, TRUE) }

InitLexical ==
  InitWith({o \in Options : ~o.impliedStrict /\ ~o.nodejsScope /\ ~o.module}, MaxNodes + 2)

NextLexical ==
  \/ Program
  \/ ProgramClose
  \/ Leaf
  \/ \E n \in Names : Identifier(n)
  \/ BlockStatement
  \/ BlockStatementClose
  \/ \E form \in LexicalDeclForms : VariableDeclaration(form)
  \/ WithStatement
  \/ WithStatementNest
  \/ WithStatementClose

SpecLexical == InitLexical /\ [][NextLexical]_vars

(***************************************************************************)
(* Programs made of identifiers, assignments, declarations and blocks,     *)
(* under every configuration, impliedStrict included.                      *)
(***************************************************************************)
InitStrict == InitWith(Options, MaxNodes)

NextStrict ==
  \/ Program
  \/ ProgramClose
  \/ Leaf
  \/ \E n \in Names : Identifier(n)
  \/ BlockStatement
  \/ BlockStatementClose
  \/ \E form \in ScopeDeclForms : VariableDeclaration(form)
  \/ \E form \in AssignForms : AssignmentExpression(form)

SpecStrict == InitStrict /\ [][NextStrict]_vars

(***************************************************************************)
(* Properties                                                              *)
(***************************************************************************)
ScopeIds == 1..Len(scopes)
RefIds == 1..Len(refs)
GlobalScope == CHOOSE s \in ScopeIds : scopes[s].type = "global"
Done == status = "done"

\* A scope and the scopes above it.
RECURSIVE Chain(_, _)
Chain(sc, s) == IF s = NoScope THEN {} ELSE {s} \cup Chain(sc, sc[s].upper)

RECURSIVE NearestVariableScope(_, _)
NearestVariableScope(sc, s) ==
  IF sc[s].type \in VariableScopeTypes THEN s ELSE NearestVariableScope(sc, sc[s].upper)

\* The definitions of a scope that satisfy Is.
Defs(sc, s, Is(_)) ==
  {<<i, j>> \in (1..Len(sc[s].variables)) \X (1..8) :
     j <= Len(sc[s].variables[i].defs) /\ Is(sc[s].variables[i].defs[j])}
DefsBefore(s, Is(_)) == IF s <= Len(scopes) THEN Defs(scopes, s, Is) ELSE {}

IsVar(d) == d.type = "Variable" /\ d.kind = "var"
IsLexical(d) == d.type = "Variable" /\ d.kind \in {"let", "const"}

\* Where a reference is pending.
Pending(r) == {<<s, i>> \in ScopeIds \X (1..Len(refs)) :
                 i <= Len(scopes[s].left) /\ scopes[s].left[i] = r}
Bound(r) == \E s \in ScopeIds : \E i \in 1..Len(scopes[s].variables) :
              \E j \in 1..Len(scopes[s].variables[i].references) :
                scopes[s].variables[i].references[j] = r
DeclaredOnChain(r) ==
  \E s \in Chain(scopes, refs[r].from) : Declares(Heap, s, refs[r].name)

Closing(s) == scopes[s].open /\ ~scopes'[s].open

\* C1: an occurrence of a name that no scope on its upper chain declares is,
\* while the walk goes on, pending in exactly one open scope of that chain
\* (forwarded at each close, neither duplicated nor dropped), and when the walk
\* of the Program has completed it is in the Global scope's through exactly
\* once, pending nowhere and bound to no Variable.
C1_UnresolvedReachesGlobalOnce ==
  \A r \in RefIds :
    /\ (~Done /\ refs[r].resolved = NoScope) =>
         /\ Cardinality(Pending(r)) = 1
         /\ \A p \in Pending(r) : p[1] \in Chain(scopes, refs[r].from) /\ scopes[p[1]].open
    /\ (Done /\ ~DeclaredOnChain(r)) =>
         /\ refs[r].resolved = NoScope
         /\ ~Bound(r)
         /\ Pending(r) = {}
         /\ Count(scopes[GlobalScope].through, r) = 1

\* C1 witness: the walk is done and an undeclared name that occurred beneath a
\* With scope and a further scope has reached the Global scope.
C1_Witness ==
  /\ Done
  /\ \E r \in RefIds :
       /\ ~DeclaredOnChain(r)
       /\ Cardinality(Chain(scopes, refs[r].from)) >= 3
       /\ \E s \in Chain(scopes, refs[r].from) : scopes[s].type = "with"
       /\ Count(scopes[GlobalScope].through, r) = 1

\* C2: a `var` declaration at any depth inside Block, Switch, For, Catch, With
\* or TDZ scopes attaches the Definition of each declared name to the nearest
\* enclosing Function/Global/Module scope of the current scope, and to no
\* intermediate scope.
C2_VarOnlyInVariableScopes ==
  \A s \in ScopeIds : Defs(scopes, s, IsVar) # {} => scopes[s].type \in VariableScopeTypes

C2_VarAttachedToNearest ==
  \A s \in 1..Len(scopes') :
    Defs(scopes', s, IsVar) # DefsBefore(s, IsVar) =>
      cur # NoScope /\ s = NearestVariableScope(scopes, cur)

C2_VarHoisted == [] C2_VarOnlyInVariableScopes /\ [][C2_VarAttachedToNearest]_vars

\* C2 witness: a `var` declaration, the latest statement met, inside a block
\* that lies inside a With, Catch, Switch or For scope has its Definition in
\* the variable scope.
C2_Witness ==
  /\ cur # NoScope
  /\ scopes[cur].type = "block"
  /\ scopes[scopes[cur].upper].type \in {"with", "catch", "switch", "for"}
  /\ stack # << >> /\ Top.op = "BlockStatement" /\ Top.node = scopes[cur].block
  /\ \E p \in Defs(scopes, NearestVariableScope(scopes, cur), IsVar) :
       scopes[NearestVariableScope(scopes, cur)].variables[p[1]].defs[p[2]].node = nodes

\* C3: with block scoping on, a `let` or `const` declaration inside a block
\* attaches its Definition to that block's own Block scope; hence the same name
\* declared in two sibling blocks makes two Variables, one per Block scope, and
\* a reference resolves only to a scope on its own upper chain, never to the
\* Variable of a sibling block.
C3_ResolvedOnChain ==
  \A r \in RefIds :
    refs[r].resolved # NoScope => refs[r].resolved \in Chain(scopes, refs[r].from)

C3_LexicalInOwnBlock ==
  (opts.es6 /\ stack # << >> /\ Top.op = "BlockStatement") =>
    \A s \in 1..Len(scopes') :
      Defs(scopes', s, IsLexical) # DefsBefore(s, IsLexical) =>
        s = cur /\ scopes[s].type = "block" /\ scopes[s].block = Top.node

C3_LetConstBlockScoped == [] C3_ResolvedOnChain /\ [][C3_LexicalInOwnBlock]_vars

\* C3 witness: two sibling blocks each declare x with `let`, and each has a
\* reference resolved to its own x.
C3_Witness ==
  \E s1, s2 \in ScopeIds :
    /\ s1 # s2
    /\ scopes[s1].type = "block" /\ scopes[s2].type = "block"
    /\ scopes[s1].upper = scopes[s2].upper
    /\ Defs(scopes, s1, IsLexical) # {} /\ Defs(scopes, s2, IsLexical) # {}
    /\ Declares(Heap, s1, "x") /\ Declares(Heap, s2, "x")
    /\ \E r1, r2 \in RefIds : refs[r1].resolved = s1 /\ refs[r2].resolved = s2

\* The scopes of a type made for a node, and the frames of the loops whose
\* left side is a `let`/`const` declaration.
ScopesOf(type, block) ==
  {s \in ScopeIds : scopes[s].type = type /\ scopes[s].block = block}
LoopNames(form) == {Callbacks(form.decl.id)[i].name : i \in 1..Len(Callbacks(form.decl.id))}
DefinedIn(sc, s, name, type, kind) ==
  \E i \in 1..Len(sc[s].variables) :
    /\ sc[s].variables[i].name = name
    /\ \E j \in 1..Len(sc[s].variables[i].defs) :
         /\ sc[s].variables[i].defs[j].type = type
         /\ sc[s].variables[i].defs[j].kind = kind
DefinedAs(s, name, type, kind) == DefinedIn(scopes, s, name, type, kind)
\* The references a scope recorded that write the value of a node to a name.
WritesOf(s, name, expr) ==
  {r \in RefIds : refs[r].from = s /\ refs[r].name = name /\ refs[r].flag = WRITE
                    /\ refs[r].writeExpr = expr}
OnTop(k, cat, node) ==
  /\ k > 1
  /\ stack[k - 1].op = "slot" /\ stack[k - 1].cat = cat /\ stack[k - 1].node = node
  /\ k = 2

\* The loop waits for the visit of its right side: the TDZ scope exists with
\* the loop names, no For scope yet, and the visit starts in the TDZ scope.
C4_RightInTDZ(k) ==
  LET node == stack[k].node
      form == stack[k].form
      right == ForInRight(node, form)
  IN /\ Cardinality(ScopesOf("TDZ", right)) = 1
     /\ ScopesOf("for", node) = {}
     /\ \A t \in ScopesOf("TDZ", right) :
          /\ \A n \in LoopNames(form) : DefinedAs(t, n, "TDZ", form.decl.kind)
          /\ OnTop(k, "expr", right) => cur = t /\ scopes[t].open

\* The loop is past its right side: the TDZ scope is closed, the For scope was
\* pushed after it beneath the scope that encloses the loop and has the loop
\* names; once the writes are made there is exactly one per loop name, and the
\* visit of the body starts in the For scope.
C4_BodyInFor(k) ==
  LET node == stack[k].node
      form == stack[k].form
      right == ForInRight(node, form)
  IN /\ Cardinality(ScopesOf("TDZ", right)) = 1
     /\ Cardinality(ScopesOf("for", node)) = 1
     /\ \A t \in ScopesOf("TDZ", right) : \A s \in ScopesOf("for", node) :
          /\ ~scopes[t].open /\ scopes[t].closes = 1
          /\ s > t
          /\ scopes[s].upper = scopes[t].upper /\ scopes[s].upper # t
          /\ \A n \in LoopNames(form) :
               /\ DefinedAs(s, n, "Variable", form.decl.kind)
               /\ Cardinality(WritesOf(s, n, right))
                    = (IF stack[k].op = "visitForIn_body" THEN 1 ELSE 0)
               /\ \A r \in WritesOf(s, n, right) : refs[r].init /\ refs[r].partial
          /\ (stack[k].op = "visitForIn_body" /\ OnTop(k, "stmt", ForInBody(node, form)))
               => cur = s /\ scopes[s].open

C4_Stages ==
  \A k \in 1..Len(stack) :
    /\ stack[k].op = "visitForIn_right" => C4_RightInTDZ(k)
    /\ stack[k].op \in {"materializeIterationScope_writes", "visitForIn_body"}
         => C4_BodyInFor(k)

\* The end of the loop closes the For scope, which is current.
C4_ForClosedLast ==
  (Walking /\ Top.op = "visitForIn_body" /\ stack' = Tail(stack)) =>
    \A s \in ScopesOf("for", Top.node) :
      /\ cur = s /\ scopes[s].open
      /\ ~scopes'[s].open /\ scopes'[s].closes = 1
      /\ cur' = scopes[s].upper

\* C4: a for-in/for-of statement over a `let`/`const` declaration pushes a TDZ
\* scope with the loop names, visits the right side in it, closes it, pushes a
\* For scope beneath the scope that encloses the loop, defines the loop names
\* in it and records exactly one write of the right side (init, partial) per
\* name, visits the body beneath the For scope, and closes the For scope.
C4_ForInLexicalOrder == [] C4_Stages /\ [][C4_ForClosedLast]_vars

\* C4 witness: the loop `for (let [x = e] of f) b` is over; both of its scopes
\* are closed and the For scope recorded the write of x.
C4_Witness ==
  \E t, s \in ScopeIds :
    /\ scopes[t].type = "TDZ" /\ scopes[s].type = "for"
    /\ scopes[t].block = Child(scopes[s].block, 2) /\ scopes[s].upper = scopes[t].upper
    /\ scopes[t].closes = 1 /\ scopes[s].closes = 1
    /\ DefinedAs(t, "x", "TDZ", "let") /\ DefinedAs(s, "x", "Variable", "let")
    /\ \E r \in WritesOf(s, "x", scopes[t].block) : refs[r].init /\ refs[r].partial
    /\ \E r \in RefIds : refs[r].from = s /\ refs[r].writeExpr \notin {NoNode, scopes[t].block}

\* The references pending in a scope, as a set.
LeftOf(s) == {scopes[s].left[i] : i \in 1..Len(scopes[s].left)}

\* A With scope closes dynamically: every pending reference is tainted, left
\* unresolved and handed to the upper scope in order; the With scope's
\* Variables are as they were, its pending list is empty and the upper scope
\* is current.
C5_DynamicClose(s) ==
  LET up == scopes[s].upper
  IN /\ cur = s /\ cur' = up
     /\ \A r \in LeftOf(s) : refs'[r].tainted /\ refs'[r].resolved = NoScope
     /\ \A r \in RefIds \ LeftOf(s) : refs'[r] = refs[r]
     /\ scopes'[s].variables = scopes[s].variables
     /\ scopes'[s].left = << >>
     /\ scopes'[up].left = scopes[up].left \o scopes[s].left
     /\ scopes'[up].variables = scopes[up].variables

\* A With scope closes statically: no reference changes its taint, a pending
\* reference to a name the scope declares is resolved to it and any other is
\* handed to the upper scope.
C5_StaticClose(s) ==
  LET up == scopes[s].upper
  IN /\ cur = s /\ cur' = up
     /\ \A r \in RefIds : refs'[r].tainted = refs[r].tainted
     /\ \A r \in LeftOf(s) :
          IF Declares(Heap, s, refs[r].name)
          THEN refs'[r].resolved = s /\ Count(scopes'[up].left, r) = 0
          ELSE refs'[r].resolved = NoScope /\ Count(scopes'[up].left, r) = 1
     /\ scopes'[s].left = << >>

C5_WithClose ==
  \A s \in ScopeIds :
    (scopes[s].type = "with" /\ Closing(s)) =>
      IF ShouldStaticallyClose THEN C5_StaticClose(s) ELSE C5_DynamicClose(s)

\* Only the dynamic close of a With scope taints: without it no reference is
\* tainted, and a tainted reference was pending in a With scope.
C5_TaintedByWith ==
  \A r \in RefIds :
    refs[r].tainted =>
      /\ ~ShouldStaticallyClose
      /\ \E s \in Chain(scopes, refs[r].from) :
           scopes[s].type = "with" /\ ~scopes[s].open /\ Count(scopes[s].through, r) = 1

\* C5: when a With scope closes and may not be closed statically, every
\* reference pending in it, whatever its name, is tainted and handed to the
\* upper scope, none is resolved against the With scope's Variables, none is
\* made, the pending list is cleared and the upper scope becomes current; when
\* it may be closed statically the default close is used and nothing is
\* tainted.
C5_WithScopeClose == [] C5_TaintedByWith /\ [][C5_WithClose]_vars

\* C5 witness: `with (o) let x = 1` without static closing: the With scope
\* declares x, and the write of x was tainted and handed up unresolved.
C5_Witness ==
  /\ ~ShouldStaticallyClose
  /\ \E s \in ScopeIds : \E r \in RefIds :
       /\ scopes[s].type = "with" /\ ~scopes[s].open
       /\ Declares(Heap, s, "x")
       /\ refs[r].from = s /\ refs[r].name = "x"
       /\ refs[r].tainted /\ refs[r].resolved = NoScope
       /\ Count(scopes[s].through, r) = 1

\* The handlers that wait for their children's visits to call close, and the
\* node that the one on top of the stack passes to it.
ClosingOps ==
  {"Program", "BlockStatement", "WithStatement_body", "visitFunction_body",
   "visitFunction_exit", "visitClass_body", "visitForIn_right", "visitForIn_body",
   "ForStatement_body", "CatchClause_body", "SwitchStatement_cases"}
ClosingNode ==
  IF Top.op = "visitForIn_right" THEN ForInRight(Top.node, Top.form) ELSE Top.node

\* The open scopes are the current scope and the scopes above it, and a
\* scope is closed at most once; after the Program none is open.
C7_OpenIsChain ==
  /\ \A s \in ScopeIds :
       /\ scopes[s].closes \in {0, 1}
       /\ scopes[s].open <=> scopes[s].closes = 0
       /\ scopes[s].open <=> s \in Chain(scopes, cur)
       /\ scopes[s].upper < s
  /\ Done => cur = NoScope /\ \A s \in ScopeIds : scopes[s].closes = 1

\* A scope closes in a close(node) with node its block, when every scope
\* pushed after it is closed or closes with it, and it does not open again.
C7_ClosedByItsNode ==
  \A s \in ScopeIds :
    /\ Closing(s) =>
         /\ Walking /\ Top.op \in ClosingOps
         /\ scopes[s].block = ClosingNode
         /\ s \in Chain(scopes, cur)
         /\ \A s2 \in ScopeIds : s2 > s => ~scopes'[s2].open
         /\ scopes'[s].closes = 1
    /\ ~scopes[s].open => ~scopes'[s].open

\* C7: in a walk without error every scope pushed is closed exactly once, as
\* the current scope, by a close(node) with node the scope's block, never
\* before a scope pushed after it; after the visit of Program none is open.
C7_ClosedOnceInOrder == [] C7_OpenIsChain /\ [][C7_ClosedByItsNode]_vars

\* C7 witness: the walk of `for (let x of function x() {}) ;` under Node.js
\* or module scoping is done: Global, Function or Module, TDZ,
\* FunctionExpressionName, Function and For scopes were each closed once.
C7_Witness ==
  /\ Done
  /\ \A t \in {"global", "TDZ", "function-expression-name", "function", "for"} :
       \E s \in ScopeIds : scopes[s].type = t
  /\ Len(scopes) >= 6
  /\ \A s \in ScopeIds : scopes[s].closes = 1

\* The Definitions of a scope, with the Variable and the place of each.
AllDefs(sc, s) == Defs(sc, s, LAMBDA d : TRUE)
DefAt(sc, s, p) == sc[s].variables[p[1]].defs[p[2]]

\* The outcome of an import declaration of the given specifiers at a node.
C10_Imported(node, form) ==
  IF opts.es6 /\ opts.module
  THEN /\ status' = status
       /\ refs' = refs
       /\ Len(scopes') = Len(scopes) /\ cur' = cur
       /\ \A s \in ScopeIds : s # cur => scopes'[s] = scopes[s]
       /\ scopes'[cur] = [scopes[cur] EXCEPT !.variables = scopes'[cur].variables]
       /\ AllDefs(scopes, cur) \subseteq AllDefs(scopes', cur)
       /\ \A p \in AllDefs(scopes, cur) : DefAt(scopes', cur, p) = DefAt(scopes, cur, p)
       /\ Cardinality(AllDefs(scopes', cur) \ AllDefs(scopes, cur)) = Len(form)
       /\ \A i \in 1..Len(form) :
            \E p \in AllDefs(scopes', cur) \ AllDefs(scopes, cur) :
              /\ scopes'[cur].variables[p[1]].name = form[i].local
              /\ DefAt(scopes', cur, p).type = "ImportBinding"
              /\ DefAt(scopes', cur, p).name = form[i].local
              /\ DefAt(scopes', cur, p).node = Child(node, i)
              /\ DefAt(scopes', cur, p).parent = node
  ELSE /\ status' = "error"
       /\ UNCHANGED <<scopes, refs, cur>>

C10_ImportStep ==
  \A form \in ImportForms : ImportDeclaration(form) => C10_Imported(NodeId, form)

\* C10: an import declaration in an ES6 module adds to the current scope one
\* ImportBinding Definition per specifier, whose node is the specifier and
\* whose parent is the declaration, and adds no reference to any scope; met
\* when the manager is not both ES6 and in module mode it fails fatally.
C10_ImportBindings == [][C10_ImportStep]_vars

\* C10 witness: `import * as x, {x} from 'm'` was visited: x has two
\* ImportBinding Definitions, one per specifier of that declaration, and there
\* is no reference.
C10_Witness ==
  /\ refs = << >>
  /\ \E s \in ScopeIds : \E p, q \in AllDefs(scopes, s) :
       /\ p # q /\ p[1] = q[1]
       /\ DefAt(scopes, s, p).type = "ImportBinding"
       /\ DefAt(scopes, s, q).type = "ImportBinding"
       /\ DefAt(scopes, s, p).parent = DefAt(scopes, s, q).parent
       /\ DefAt(scopes, s, p).node = Child(DefAt(scopes, s, p).parent, 1)
       /\ DefAt(scopes, s, q).node = Child(DefAt(scopes, s, q).parent, 2)

\* The visit of a named function expression pushes a FunctionExpressionName
\* scope beneath the current scope, with the function's name, and the
\* Function scope beneath it.
C6_Pushed ==
  \A form \in FunctionExpressionForms :
    (form.type = "FunctionExpression" /\ form.id # "" /\ VisitFunction(form)) =>
      LET f == Len(scopes) + 1
      IN /\ Len(scopes') = Len(scopes) + 2
         /\ scopes'[f].type = "function-expression-name" /\ scopes'[f].upper = cur
         /\ scopes'[f].block = NodeId
         /\ DefinedIn(scopes', f, form.id, "FunctionName", "")
         /\ scopes'[f + 1].type = "function" /\ scopes'[f + 1].upper = f
         /\ scopes'[f + 1].block = NodeId
         /\ cur' = f + 1

\* The close at the end of visitFunction closes both scopes and leaves the
\* scope that encloses the function expression open and current.
C6_ClosedTogether ==
  (Walking /\ Top.op \in {"visitFunction_body", "visitFunction_exit"}
     /\ stack' = Tail(stack)) =>
    \A f \in ScopesOf("function-expression-name", Top.node) :
      /\ cur = f + 1 /\ Closing(f + 1) /\ Closing(f)
      /\ cur' = scopes[f].upper
      /\ scopes'[scopes[f].upper].open

\* Once the function expression is closed, a reference to its name from
\* inside it that no scope in between declares is resolved to the
\* FunctionExpressionName scope, and no reference from outside it is.
C6_OwnName ==
  \A f \in ScopeIds : \A r \in RefIds :
    (scopes[f].type = "function-expression-name" /\ ~scopes[f].open) =>
      /\ (/\ f \in Chain(scopes, refs[r].from)
          /\ Declares(Heap, f, refs[r].name)
          /\ \A s \in Chain(scopes, refs[r].from) :
               s > f => ~Declares(Heap, s, refs[r].name) /\ scopes[s].type # "with")
           => refs[r].resolved = f
      /\ f \notin Chain(scopes, refs[r].from) => refs[r].resolved # f

\* C6: a named function expression pushes a FunctionExpressionName scope
\* beneath the enclosing scope and the Function scope beneath that one; the
\* single close at the end of visitFunction closes both and leaves the
\* enclosing scope current; the function's name resolves to the
\* FunctionExpressionName scope's binding inside the function and never
\* outside it.
C6_NamedFunctionExpression ==
  [] C6_OwnName /\ [][C6_Pushed /\ C6_ClosedTogether]_vars

\* The visit of an export of any form.
ExportVisit ==
  \/ \E form \in ExportNamedForms : ExportNamedDeclaration(form)
  \/ \E form \in ExportDefaultForms : ExportDefaultDeclaration(form)
  \/ \E form \in ExportLegacyForms : ExportDeclaration(form)

C8_ExportThrows ==
  (Walking /\ ~InModuleScope(Heap) /\ ExportVisit) => status' = "error"

\* C8: the visit of an export of any form (named with specifiers, named with
\* an inline declaration, default, legacy) while the current scope is not a
\* Module scope raises a fatal error.
C8_ExportOutsideModule == [][C8_ExportThrows]_vars

C9_Revisited ==
  \A form \in ExportNamedForms :
    (form.declaration # "" /\ Walking /\ InModuleScope(Heap)
       /\ ExportNamedDeclaration(form)) =>
      /\ status' = "walk"
      /\ stack' # << >>
      /\ Head(stack').op = "slot" /\ Head(stack').node = Child(NodeId, 1)

\* C9: the visit, in a Module scope, of a named export with an inline
\* declaration visits that declaration next, so that its names are defined
\* and its references recorded.
C9_ExportRevisitsDeclaration == [][C9_Revisited]_vars

IsFunctionName(d) == d.type = "FunctionName"

\* The visit of a function declaration adds one FunctionName Definition, of
\* the declaration's name and node, to a scope that was there before.
C11_NameDefinedIn(s, node, form) ==
  /\ Cardinality(Defs(scopes', s, IsFunctionName) \ Defs(scopes, s, IsFunctionName)) = 1
  /\ \A p \in Defs(scopes', s, IsFunctionName) \ Defs(scopes, s, IsFunctionName) :
       /\ scopes'[s].variables[p[1]].name = form.id
       /\ DefAt(scopes', s, p).node = node
  /\ \A s2 \in ScopeIds \ {s} :
       Defs(scopes', s2, IsFunctionName) = Defs(scopes, s2, IsFunctionName)

C11_InEnclosingNotBlock ==
  \A form \in FunctionDeclarationForms :
    VisitFunction(form) =>
      \E s \in Chain(scopes, cur) :
        /\ C11_NameDefinedIn(s, NodeId, form)
        /\ (opts.es6 /\ scopes[cur].type = "block") => s # cur

C11_InCurrent ==
  \A form \in FunctionDeclarationForms :
    VisitFunction(form) => C11_NameDefinedIn(cur, NodeId, form)

NestedConst == Decl("const", PNested, TRUE)

\* The names of the Variables that a step appends to a scope, in order.
NewNames(s) ==
  [i \in 1..(Len(scopes'[s].variables) - Len(scopes[s].variables)) |->
     scopes'[s].variables[Len(scopes[s].variables) + i].name]

\* The visit of the declaration adds n Definitions, all to the current scope,
\* the names in source order, and leaves the default value and then the
\* initializer to be visited in that scope.
C12_Declared(n) ==
  VariableDeclaration(NestedConst) =>
    /\ Cardinality(AllDefs(scopes', cur) \ AllDefs(scopes, cur)) = n
    /\ \A p \in AllDefs(scopes', cur) \ AllDefs(scopes, cur) :
         /\ DefAt(scopes', cur, p).type = "Variable"
         /\ DefAt(scopes', cur, p).kind = "const"
         /\ DefAt(scopes', cur, p).node = NodeId
    /\ \A s \in ScopeIds \ {cur} : AllDefs(scopes', s) = AllDefs(scopes, s)
    /\ Len(scopes') = Len(scopes) /\ cur' = cur
    /\ Len(stack') >= 2
    /\ stack'[1] = Slot("expr", Child(NodeId, 1))
    /\ stack'[2] = Slot("expr", InitNode(NodeId, NestedConst))

\* C12 as stated: `const {a, b: [c, ...d] = []} = obj` makes four
\* Definitions, all in the declaring scope, and the default value is visited
\* as an expression in that scope.
C12_FourDefinitions == [][C12_Declared(4)]_vars

\* One new Definition per leaf identifier; where the scope did not have the
\* names, its new Variables are a, c, d in that order.
C12_InSourceOrder ==
  VariableDeclaration(NestedConst) =>
    /\ \A n \in {"a", "c", "d"} :
         Cardinality({p \in AllDefs(scopes', cur) \ AllDefs(scopes, cur) :
                        scopes'[cur].variables[p[1]].name = n}) = 1
    /\ (\A n \in {"a", "c", "d"} : ~Declares(Heap, cur, n))
         => NewNames(cur) = <<"a", "c", "d">>

\* C12 amended: `const {a, b: [c, ...d] = []} = obj` makes three Definitions
\* (a, c, d: one per leaf identifier, b being a property key and no binding),
\* all in the declaring scope in source order, and the default value is
\* visited as an expression in that scope.
C12_ThreeDefinitions == [][C12_Declared(3) /\ C12_InSourceOrder]_vars

\* C12 witness: the declaration was visited inside a block under ES6: the
\* Block scope has a, c and d, and the default value was visited.
C12_Witness ==
  \E s \in ScopeIds :
    /\ scopes[s].type = "block"
    /\ Len(scopes[s].variables) = 3
    /\ DefinedAs(s, "a", "Variable", "const")
    /\ DefinedAs(s, "c", "Variable", "const")
    /\ DefinedAs(s, "d", "Variable", "const")
    /\ \A k \in 1..Len(stack) : stack[k].op # "slot"

\* The scopes a visit may declare in or refer from: the current scope and its
\* variable scope, and the scopes the visit itself pushes.
C13_Targets ==
  IF cur = NoScope THEN {}
  ELSE {s \in {cur, scopes[cur].variableScope} : scopes[s].open}

\* Every step adds Definitions and References to open target scopes only; a
\* closed scope is left as it is; a reference gets resolved only by the close
\* of the scope it resolves to.
C13_TargetsOpen ==
  /\ \A s \in ScopeIds :
       /\ AllDefs(scopes', s) # AllDefs(scopes, s) => s \in C13_Targets
       /\ ~scopes[s].open => scopes'[s] = scopes[s]
  /\ \A r \in 1..Len(refs') :
       /\ (r > Len(refs) /\ refs'[r].from \in ScopeIds) => refs'[r].from \in C13_Targets
       /\ (refs'[r].resolved # NoScope /\ (r > Len(refs) \/ refs[r].resolved = NoScope))
            => /\ ~scopes'[refs'[r].resolved].open
               /\ refs'[r].resolved \in ScopeIds => scopes[refs'[r].resolved].open

\* A With scope that is closed dynamically resolves nothing (WithScope.__close).
C13_ClosesStatically(s) == scopes[s].type = "with" => ShouldStaticallyClose

\* The nearest scope above a reference that declares its name, once closed
\* (statically), has resolved the reference to that declaration.
C13_ResolvedAtClose ==
  \A r \in RefIds : \A s \in Chain(scopes, refs[r].from) :
    ( /\ ~scopes[s].open /\ C13_ClosesStatically(s)
      /\ Declares(Heap, s, refs[r].name)
      /\ \A t \in Chain(scopes, refs[r].from) \ Chain(scopes, s) :
           ~Declares(Heap, t, refs[r].name) )
    => /\ refs[r].resolved = s
       /\ \E i \in 1..Len(scopes[s].variables) :
            /\ scopes[s].variables[i].name = refs[r].name
            /\ \E j \in 1..Len(scopes[s].variables[i].references) :
                 scopes[s].variables[i].references[j] = r

C14_ClassScopePushed(node, form) ==
  LET c == Len(scopes) + 1
  IN /\ Len(scopes') = c /\ cur' = c
     /\ scopes'[c].type = "class" /\ scopes'[c].block = node /\ scopes'[c].open
     /\ scopes'[c].upper = cur
     /\ scopes'[c].left = << >>
     /\ \A r \in 1..Len(refs') : refs'[r].from # c
     /\ form.id # "" => DefinedIn(scopes', c, form.id, "ClassName", "")
     /\ form.id = "" => scopes'[c].variables = << >>
     /\ stack'[1] = Cont("visitClass_body", node)

C14_ClassSteps ==
  /\ \A form \in ClassForms : VisitClass(form) =>
       IF form.super
       THEN /\ Len(scopes') = Len(scopes) /\ cur' = cur
            /\ stack'[1] = Slot("expr", Child(NodeId, 1))
            /\ stack'[2].op = "visitClass_super" /\ stack'[2].node = NodeId
       ELSE C14_ClassScopePushed(NodeId, form)
  /\ \A n \in Names :
       (Identifier(n) /\ Len(stack) > 1 /\ stack[2].op = "visitClass_super"
          /\ Top = Slot("expr", Child(stack[2].node, 1)))
       => /\ cur' = cur /\ refs'[Len(refs')].from = cur
          /\ scopes'[cur].left = Append(scopes[cur].left, Len(refs'))
          /\ ScopesOf("class", stack[2].node) = {}
  /\ VisitClassNest => C14_ClassScopePushed(Top.node, Top.form)
  /\ VisitClassClose =>
       \A c \in ScopesOf("class", Top.node) :
         /\ scopes[c].open /\ ~scopes'[c].open
         /\ \A s \in ScopeIds : scopes[s].open /\ c \in Chain(scopes, s) => ~scopes'[s].open

\* While the superclass is visited there is no Class scope of the class;
\* while the body is visited there is one, and it is open.
C14_ClassFrames ==
  \A k \in 1..Len(stack) :
    /\ stack[k].op = "visitClass_super" => ScopesOf("class", stack[k].node) = {}
    /\ stack[k].op = "visitClass_body" =>
         /\ Cardinality(ScopesOf("class", stack[k].node)) = 1
         /\ \A c \in ScopesOf("class", stack[k].node) : scopes[c].open

\* C14: the superclass of a class is visited, and its references recorded,
\* in the scope around the class before the Class scope is pushed, so none of
\* them is pending in the Class scope; the class's own name is then defined
\* in the Class scope before the body is visited, and the Class scope is
\* closed after the body.
C14_SuperclassOutsideClassScope == []C14_ClassFrames /\ [][C14_ClassSteps]_vars

\* `class x extends y {`: the body is about to be visited, the reference to
\* y is pending in the scope around the Class scope, x is defined in it.
C14_Witness ==
  /\ Walking /\ Top = Cont("visitClass_body", 2)
  /\ Len(refs) = 1 /\ scopes[cur].type = "class" /\ scopes[cur].block = 2
  /\ refs[1].from = scopes[cur].upper
  /\ scopes[scopes[cur].upper].left = << 1 >>
  /\ scopes[cur].left = << >>
  /\ DefinedAs(cur, "x", "ClassName", "")

\* The references a step records.
NewRefs == (Len(refs) + 1)..Len(refs')
PatternAssignForms == {form \in AssignForms : IsPattern(form.left)}

\* The outcome of the visit of an assignment to a pattern: the references of
\* its targets, all pending in the current scope, and its right-hand side as
\* the last of the visits it asks for.
C15_Assigned(node, form) ==
  LET right == AssignRight(node, form)
      cbs == Callbacks(form.left)
  IN /\ cur' = cur /\ Len(scopes') = Len(scopes)
     /\ \A s \in ScopeIds \ {cur} : scopes'[s] = scopes[s]
     /\ scopes'[cur].left = scopes[cur].left \o [i \in 1..Cardinality(NewRefs) |-> Len(refs) + i]
     /\ \A r \in RefIds : refs'[r] = refs[r]
     /\ \A r \in NewRefs : refs'[r].from = cur /\ refs'[r].resolved = NoScope
     /\ Len(stack') = Len(Rest) + NumRhs(form.left) + 1
     /\ stack'[NumRhs(form.left) + 1] = Slot("expr", right)
     /\ IF form.operator = "="
        THEN /\ \A r \in NewRefs :
                  /\ refs'[r].flag = WRITE /\ ~refs'[r].init
                  /\ refs'[r].implicitGlobal <=> ~scopes[cur].isStrict
                  /\ \E i \in 1..Len(cbs) : refs'[r].name = cbs[i].name
             /\ \A i \in 1..Len(cbs) :
                  /\ Cardinality({r \in NewRefs : refs'[r].name = cbs[i].name
                                                     /\ refs'[r].writeExpr = right}) = 1
                  /\ Cardinality({r \in NewRefs : refs'[r].name = cbs[i].name
                                                     /\ refs'[r].writeExpr # right})
                       = Len(cbs[i].assignments)
                  /\ \A a \in 1..Len(cbs[i].assignments) :
                       \E r \in NewRefs :
                         /\ refs'[r].name = cbs[i].name
                         /\ refs'[r].writeExpr = Child(node, cbs[i].assignments[a].right)
        ELSE /\ Cardinality(NewRefs) = 1
             /\ \A r \in NewRefs :
                  /\ refs'[r].flag = RW /\ refs'[r].name = form.left.name
                  /\ refs'[r].writeExpr = right /\ ~refs'[r].implicitGlobal

\* C15: an assignment to a pattern records, with `=`, for each leaf target
\* exactly one WRITE reference in the current scope whose write value is the
\* right-hand side and whose init is false, one more WRITE per default value
\* on its path, and no READ; with a compound operator exactly one READWRITE
\* reference; the right-hand side is visited afterwards; the `=` references
\* carry an implicit-global candidate iff the current scope is not strict.
C15_PatternAssignment ==
  [][\A form \in PatternAssignForms :
       AssignmentExpression(form) => C15_Assigned(NodeId, form)]_vars

\* `[x = e] = v` in a strict scope: the write of the default value, then the
\* write of the right-hand side, neither with an implicit-global candidate.
C15_Witness ==
  \E r \in RefIds : \E n \in 1..(MaxNodes + 3) :
    /\ r > 1
    /\ refs[r].name = "x" /\ refs[r - 1].name = "x"
    /\ refs[r].flag = WRITE /\ refs[r - 1].flag = WRITE
    /\ ~refs[r].init /\ ~refs[r - 1].init
    /\ refs[r - 1].writeExpr = Child(n, 1) /\ refs[r].writeExpr = Child(n, 2)
    /\ refs[r].from = refs[r - 1].from
    /\ scopes[refs[r].from].isStrict
    /\ ~refs[r].implicitGlobal /\ ~refs[r - 1].implicitGlobal
    /\ Walking /\ Len(stack) > 1
    /\ Top = Slot("expr", Child(n, 1)) /\ stack[2] = Slot("expr", Child(n, 2))

\* The walker is inside a block or a switch statement.
InsideBlock ==
  \E k \in 1..Len(stack) : stack[k].op \in {"BlockStatement", "SwitchStatement_cases"}

\* Without block scoping a block and a switch statement push no scope and
\* their close closes none.
C16_NoScopeForBlocks ==
  (~opts.es6 /\ (BlockStatement \/ BlockStatementClose
                   \/ SwitchStatementNest \/ SwitchStatementClose))
  => scopes' = scopes /\ cur' = cur /\ refs' = refs

\* Without block scoping a declaration inside a block or a switch statement
\* is attached to the nearest variable scope and to no other.
C16_FallsThrough ==
  \A form \in DeclForms :
    (~opts.es6 /\ Walking /\ InsideBlock /\ VariableDeclaration(form))
    => /\ AllDefs(scopes', NearestVariableScope(scopes, cur))
            # AllDefs(scopes, NearestVariableScope(scopes, cur))
       /\ \A s \in ScopeIds \ {NearestVariableScope(scopes, cur)} :
            AllDefs(scopes', s) = AllDefs(scopes, s)

\* C16: with ecmaVersion < 6 a BlockStatement and a SwitchStatement push no
\* scope and their close(node) closes none, and every declaration inside
\* them (var, let, const) is attached to the nearest variable scope, also
\* inside a Catch, With or For scope.
C16_ES5BlocksTransparent == [][C16_NoScopeForBlocks /\ C16_FallsThrough]_vars

\* The scopes the Program pushes: Global, Function in nodejsScope mode,
\* Module for an ES6 module.
ProgramScopeTypes ==
  << "global" >> \o (IF opts.nodejsScope THEN << "function" >> ELSE << >>)
                \o (IF opts.es6 /\ opts.module THEN << "module" >> ELSE << >>)

\* The scopes of the Program node are these, in this order, each on top of
\* the one before; only the innermost takes the implied strictness; they
\* are open during the walk and closed after it.
C17_ProgramScopes ==
  status # "init" =>
    LET n == Len(ProgramScopeTypes)
    IN /\ Len(scopes) >= n
       /\ \A s \in ScopeIds : scopes[s].block = ProgramNode <=> s <= n
       /\ \A s \in 1..n :
            /\ scopes[s].type = ProgramScopeTypes[s]
            /\ scopes[s].upper = s - 1
            /\ scopes[s].isStrict <=> (s = n /\ opts.impliedStrict)
            /\ status = "walk" => scopes[s].open
            /\ Done => ~scopes[s].open /\ scopes[s].closes = 1
       /\ opts.nodejsScope => ~scopes[1].isStrict

\* The close of the Program closes all of its scopes at once.
C17_SingleClose ==
  ProgramClose =>
    \A s \in 1..Len(ProgramScopeTypes) : scopes[s].open /\ ~scopes'[s].open

\* C17: Program pushes Global, then a Function scope iff nodejsScope, then a
\* Module scope iff ES6 and module, all with the Program node as block; the
\* implied strictness goes to the innermost of them only; in nodejsScope
\* mode the Global scope is not strict, whatever the other options; the one
\* close(Program) closes them all.
C17_ProgramScopeStack == []C17_ProgramScopes /\ [][C17_SingleClose]_vars

\* An ES6 module walked in nodejsScope mode with impliedStrict: Global and
\* Function are not strict, Module is, and the three are closed.
C17_Witness ==
  /\ Done /\ opts.nodejsScope /\ opts.impliedStrict /\ opts.es6 /\ opts.module
  /\ Len(scopes) > 3
  /\ scopes[1].type = "global" /\ scopes[2].type = "function" /\ scopes[3].type = "module"
  /\ ~scopes[1].isStrict /\ ~scopes[2].isStrict /\ scopes[3].isStrict
  /\ \A s \in 1..3 : ~scopes[s].open /\ scopes[s].block = ProgramNode

LexicalForInForms ==
  {form \in ForInForms : form.left = "declaration" /\ form.decl.kind # "var"}

\* The step that materializes the TDZ scope of a loop: one new scope of type
\* TDZ whose Definitions are TDZ Definitions of the loop names, nothing
\* pending in it, no new Reference, every other scope as it was.
C18_Materialized(form) ==
  VisitForIn(form) =>
    LET t == Len(scopes) + 1
    IN /\ Len(scopes') = t /\ cur' = t
       /\ scopes'[t].type = "TDZ" /\ scopes'[t].upper = cur
       /\ \A s \in ScopeIds : scopes'[s] = scopes[s]
       /\ \A p \in AllDefs(scopes', t) : DefAt(scopes', t, p).type = "TDZ"
       /\ \A n \in Names : Declares(Heap', t, n) <=> n \in LoopNames(form)
       /\ refs' = refs
       /\ scopes'[t].left = << >>

\* C18: materializing the TDZ scope of a for-in/for-of with let or const
\* only adds TDZ Definitions of the loop names to the TDZ scope and adds no
\* Reference to any scope, whatever the shape of the declaration (with an
\* initializer, with default values in its pattern).
C18_TDZAddsNoReference == [][\A form \in LexicalForInForms : C18_Materialized(form)]_vars

FunctionForms == FunctionDeclarationForms \cup FunctionExpressionForms

\* The parameters from the i-th to the upto-th as they are to be defined:
\* name, index and rest of each leaf binding, in source order.
RECURSIVE ParamEntries(_, _, _)
ParamEntries(form, i, upto) ==
  IF i > upto THEN << >>
  ELSE [k \in 1..Len(Callbacks(form.params[i])) |->
          [name |-> Callbacks(form.params[i])[k].name, index |-> i - 1,
           rest |-> Callbacks(form.params[i])[k].rest]]
         \o ParamEntries(form, i + 1, upto)

\* The frame of the function on the new stack, below the pending visits of
\* default values or of an expression body.
C19_Frame(node) ==
  CHOOSE k \in 1..Len(stack') :
    /\ stack'[k].node = node
    /\ stack'[k].op \in {"visitFunction_params", "visitFunction_body", "visitFunction_exit"}
    /\ \A j \in 1..(k - 1) : stack'[j].op = "slot"

\* What the function scope f of the node holds after a step of visitFunction:
\* the parameters handled so far, and node.rest once all are handled.
C19_Expected(node, form) ==
  LET fr == stack'[C19_Frame(node)]
  IN IF fr.op = "visitFunction_params" THEN ParamEntries(form, 1, fr.i - 1)
     ELSE ParamEntries(form, 1, Len(form.params))
            \o (IF form.rest = "" THEN << >>
                ELSE << [name |-> form.rest, index |-> Len(form.params), rest |-> TRUE] >>)

C19_ParametersIn(f, node, form) ==
  LET vs == scopes'[f].variables
      ex == C19_Expected(node, form)
  IN /\ scopes'[f].type = "function" /\ scopes'[f].block = node /\ cur' = f
     /\ Len(vs) = Len(ex)
     /\ \A k \in 1..Len(ex) :
          /\ vs[k].name = ex[k].name /\ Len(vs[k].defs) = 1
          /\ vs[k].defs[1].type = "Parameter" /\ vs[k].defs[1].node = node
          /\ vs[k].defs[1].index = ex[k].index /\ vs[k].defs[1].rest = ex[k].rest
     /\ \A s \in ScopeIds \ {f} :
          Defs(scopes', s, LAMBDA d : d.type = "Parameter")
            = Defs(scopes, s, LAMBDA d : d.type = "Parameter")
     /\ \A r \in NewRefs : refs'[r].from = f /\ refs'[r].flag = WRITE /\ refs'[r].init
     /\ \A s \in (Len(scopes) + 1)..Len(scopes') :
          scopes'[s].type \in {"function", "function-expression-name"}
     /\ LET fr == stack'[C19_Frame(node)]
        IN /\ form.body = "block" =>
                fr.op \in {"visitFunction_params", "visitFunction_body"}
           /\ fr.op = "visitFunction_body" => C19_Frame(node) = 1

C19_FunctionSteps ==
  /\ \A form \in FunctionForms :
       VisitFunction(form) => C19_ParametersIn(Len(scopes'), NodeId, form)
  /\ VisitFunctionParams =>
       /\ Len(scopes') = Len(scopes)
       /\ C19_ParametersIn(cur, Top.node, Top.form)

\* C19: the leaf bindings of a function's parameters are defined in the new
\* Function scope and in no other, as ParameterDefinitions in parameter
\* order with the 0-based position of the parameter as index (a rest element
\* has rest = true; node.rest has index = number of params and rest = true);
\* the default values are referenced, and visited, with the Function scope
\* current; a block body is visited as the function's own list of children,
\* so that the visit of the function pushes no Block scope.
C19_ParametersInFunctionScope == [][C19_FunctionSteps]_vars

\* `function x(y) {` with the legacy rest parameter d, and
\* `function (y = e, ...d) {`: the body is about to be visited.
C19_Witness ==
  /\ Walking /\ Top.op = "visitFunction_body"
  /\ scopes[cur].type = "function" /\ scopes[cur].block = Top.node
  /\ Len(scopes[cur].variables) = 2
  /\ scopes[cur].variables[1].name = "y" /\ scopes[cur].variables[2].name = "d"
  /\ scopes[cur].variables[1].defs[1].index = 0 /\ ~scopes[cur].variables[1].defs[1].rest
  /\ scopes[cur].variables[2].defs[1].index = 1 /\ scopes[cur].variables[2].defs[1].rest
  /\ \E r \in RefIds : refs[r].from = cur /\ refs[r].name = "y" /\ refs[r].init

\* The scopes that the handler a frame belongs to has pushed.
FrameScopes(fr) ==
  CASE fr.op = "Program" -> {s \in ScopeIds : scopes[s].block = ProgramNode}
    [] fr.op = "BlockStatement" -> ScopesOf("block", fr.node)
    [] fr.op = "WithStatement_body" -> ScopesOf("with", fr.node)
    [] fr.op \in {"visitFunction_params", "visitFunction_body", "visitFunction_exit"} ->
         ScopesOf("function", fr.node)
    [] fr.op = "visitClass_body" -> ScopesOf("class", fr.node)
    [] fr.op = "visitForIn_right" -> ScopesOf("TDZ", ForInRight(fr.node, fr.form))
    [] fr.op \in {"visitForIn_body", "materializeIterationScope_writes", "ForStatement_body"} ->
         ScopesOf("for", fr.node)
    [] fr.op = "CatchClause_body" -> ScopesOf("catch", fr.node)
    [] fr.op = "SwitchStatement_cases" -> ScopesOf("switch", fr.node)
    [] OTHER -> {}

\* The scope that was current when the innermost handler still at work
\* asked for the visits it waits for: the scope it pushed last, or, for a
\* handler that pushed none, the one of the handler around it.
EntryScope ==
  LET k == CHOOSE k \in 1..Len(stack) :
             /\ FrameScopes(stack[k]) # {}
             /\ \A j \in 1..(k - 1) : FrameScopes(stack[j]) = {}
  IN CHOOSE s \in FrameScopes(stack[k]) : \A t \in FrameScopes(stack[k]) : t <= s

\* No other scope has the block of a TDZ scope.
C20_NoSharedBlock ==
  \A t \in ScopeIds : scopes[t].type = "TDZ" =>
    \A s \in ScopeIds \ {t} : scopes[s].block # scopes[t].block

\* C20: whenever a visit other than the Program's has returned, the current
\* scope is the one that was current when the visit began: between the
\* visits of its children a handler finds the scope it works in current,
\* also a for-in/for-of over let/const whose right side is a function or
\* class expression.
C20_CurrentScopeRestored == Walking => cur = EntryScope

\* The visit of an import.
ImportVisit == \E form \in ImportForms : ImportDeclaration(form)

\* A step that raises the structural error is the visit of an import
\* outside an ES6 module or of an export outside a Module scope, and it
\* leaves every scope, every reference, the current scope and the walker's
\* stack as they were.
C21_FailsUntouched ==
  (status = "walk" /\ status' = "error") =>
    /\ \/ ImportVisit /\ ~(opts.es6 /\ opts.module)
       \/ ExportVisit /\ ~InModuleScope(Heap)
    /\ scopes' = scopes /\ refs' = refs /\ cur' = cur /\ stack' = stack

\* Where the handlers are to raise the error, they do.
C21_Raised ==
  /\ (Walking /\ ImportVisit /\ ~(opts.es6 /\ opts.module)) => status' = "error"
  /\ \A form \in ExportDefaultForms :
       (Walking /\ ~InModuleScope(Heap) /\ ExportDefaultDeclaration(form))
         => status' = "error"
  /\ \A form \in ExportLegacyForms :
       (Walking /\ ~InModuleScope(Heap) /\ ExportDeclaration(form))
         => status' = "error"
  /\ \A form \in ExportNamedForms :
       (Walking /\ ~InModuleScope(Heap) /\ form.declaration = ""
          /\ form.specifiers # << >> /\ ExportNamedDeclaration(form))
         => status' = "error"

\* After the error the scopes that were open are open: the current scope
\* and the scopes above it, and no other.
C21_StackKept ==
  status = "error" =>
    /\ cur # NoScope /\ stack # << >>
    /\ \A s \in ScopeIds : scopes[s].open <=> s \in Chain(scopes, cur)

\* C21: when the handler of an import or export raises the structural error
\* (import outside ES6 module mode, export outside a Module scope), it has
\* added no Definition and no Reference to any scope, and the scope stack is
\* as it was when the handler was entered: nothing is closed or popped.
C21_ErrorBeforeMutation ==
  []C21_StackKept /\ [][C21_FailsUntouched /\ C21_Raised]_vars

\* An export as the first statement of a block of an ES6 module, such as
\* `{ export default (x = 1) }`: the error was raised with the Block scope
\* current, which is still open and current, with no Definition in it and
\* no Reference anywhere.
C21_Witness ==
  /\ status = "error" /\ opts.es6 /\ opts.module
  /\ scopes[cur].type = "block" /\ scopes[cur].open
  /\ scopes[cur].variables = << >> /\ refs = << >>
  /\ stack # << >> /\ Top.op = "BlockStatement"

\* The references made inside a scope: from it or from a scope nested in it.
MadeInside(w) == {r \in RefIds : w \in Chain(scopes, refs[r].from)}

\* The steps of a with statement: the object is visited, and an identifier
\* met as the object is recorded, in the scope around the statement while no
\* With scope of the statement exists; the With scope is then pushed on that
\* scope with nothing pending; its close changes no reference but those
\* pending in it, which were all made inside it.
C22_WithSteps ==
  /\ WithStatement =>
       /\ scopes' = scopes /\ refs' = refs /\ cur' = cur
       /\ stack'[1] = Slot("expr", Child(NodeId, 1))
       /\ stack'[2] = Cont("WithStatement_object", NodeId)
  /\ \A n \in Names :
       (Identifier(n) /\ Len(stack) > 1 /\ stack[2].op = "WithStatement_object"
          /\ Top = Slot("expr", Child(stack[2].node, 1)))
       => /\ cur' = cur /\ refs'[Len(refs')].from = cur
          /\ scopes'[cur].left = Append(scopes[cur].left, Len(refs'))
          /\ ScopesOf("with", stack[2].node) = {}
  /\ WithStatementNest =>
       LET w == Len(scopes) + 1
       IN /\ Len(scopes') = w /\ cur' = w
          /\ scopes'[w].type = "with" /\ scopes'[w].block = Top.node
          /\ scopes'[w].upper = cur /\ scopes'[w].left = << >>
          /\ refs' = refs
          /\ \A r \in RefIds : refs[r].from # w
  /\ \A w \in ScopeIds :
       (scopes[w].type = "with" /\ Closing(w)) =>
         /\ LeftOf(w) \subseteq MadeInside(w)
         /\ \A r \in RefIds \ MadeInside(w) : refs'[r] = refs[r]
         /\ \A r \in RefIds :
              (refs'[r].tainted /\ ~refs[r].tainted) => r \in LeftOf(w)
         /\ ~ShouldStaticallyClose => \A r \in LeftOf(w) : refs'[r].tainted

\* What a With scope holds, pending or handed up, was made inside it.
C22_OnlyFromInside ==
  \A w \in ScopeIds : scopes[w].type = "with" =>
    \A r \in RefIds :
      (Count(scopes[w].left, r) > 0 \/ Count(scopes[w].through, r) > 0)
        => r \in MadeInside(w)

\* C22: the references of the object of a with statement are recorded in
\* the scope around it before the With scope is pushed, so that they are
\* never pending in the With scope and its close does not taint them; the
\* close taints only references made in the body, or handed up by scopes
\* nested in the body.
C22_WithObjectOutside == []C22_OnlyFromInside /\ [][C22_WithSteps]_vars

\* `with (x) y;` as the first statement, closed dynamically: the reference
\* to x is from the scope around the With scope and is not tainted, the
\* reference to y is from the With scope and is tainted.
C22_Witness ==
  /\ ~ShouldStaticallyClose /\ Len(refs) = 2
  /\ \E w \in ScopeIds :
       /\ scopes[w].type = "with" /\ scopes[w].block = 2 /\ ~scopes[w].open
       /\ refs[1].from = scopes[w].upper /\ ~refs[1].tainted
       /\ refs[2].from = w /\ refs[2].tainted
       /\ scopes[w].through = << 2 >>


====
